---- MODULE Spec2Model ----
(***************************************************************************)
(* Audit orchestration of asymsites: the audits and issues tables, the     *)
(* detached runAudit executions, the cancel handler (DELETE /audits/[id])  *)
(* and the stale-audit watchdog (DELETE /audits), the bulk sweep            *)
(* runAllAudits, and one remote command call runWPCLI.                     *)
(*                                                                         *)
(* Every `await` of the source is one step of the process that executes    *)
(* it, so the steps of different requests and runs interleave exactly at   *)
(* the awaits.  A store call resolves to {data, error}: it never throws,   *)
(* and the caller sees a failure only where it inspects `error`.           *)
(***************************************************************************)
EXTENDS Integers, Sequences, FiniteSets, TLC

VARIABLES audits, issues, runs, cancelReq, cleanupReq, response, faults, limits,
          cancelled, cleaned, batch, ssh, crawl, calc, client

vars == <<audits, issues, runs, cancelReq, cleanupReq, response, faults, limits,
          cancelled, cleaned, batch, ssh, crawl, calc, client>>

----------------------------------------------------------------------------
(* Bounds of the model *)

\* number of Audit rows (and detached runs) a behaviour of Spec creates
MaxAudits == 1
\* number of Audit rows (and detached runs) a behaviour of SpecRuns creates
MaxConcurrentAudits == 2
\* number of hosts in the sites table
MaxSites == 2
\* findings one run gathers over all its check modules
MaxFindings == 1
\* store errors and process deaths one behaviour of SpecFaults contains
MaxFaults == 1
\* number of Audit rows a behaviour of SpecFaults creates
MaxFaultyAudits == 1
\* milliseconds that pass in one Tick of the clock
TickMs == 300000
\* number of Audit rows the start requests of a behaviour of SpecAwaited create
MaxStartedWithAwaited == 1
\* store errors one behaviour of SpecBatch contains
MaxBatchFaults == 1

----------------------------------------------------------------------------
(* Program constants *)

Min(a, b) == IF a < b THEN a ELSE b
Max(a, b) == IF a > b THEN a ELSE b

STALE_THRESHOLD_MS == 5 * 60 * 1000

\* AUDIT_STEPS with the percents of the security and SEO steps exchanged
AUDIT_STEPS_Unordered ==
  << [key |-> "plugins",     label |-> "Checking plugins",    percent |-> 20],
     [key |-> "database",    label |-> "Analyzing database",  percent |-> 40],
     [key |-> "performance", label |-> "Testing performance", percent |-> 60],
     [key |-> "security",    label |-> "Security scan",       percent |-> 95],
     [key |-> "seo",         label |-> "SEO analysis",        percent |-> 80],
     [key |-> "complete",    label |-> "Finalizing",          percent |-> 100] >>

\* AUDIT_STEPS: key, label, percent
AUDIT_STEPS ==
  << [key |-> "plugins",     label |-> "Checking plugins",    percent |-> 20],
     [key |-> "database",    label |-> "Analyzing database",  percent |-> 40],
     [key |-> "performance", label |-> "Testing performance", percent |-> 60],
     [key |-> "security",    label |-> "Security scan",       percent |-> 80],
     [key |-> "seo",         label |-> "SEO analysis",        percent |-> 95],
     [key |-> "complete",    label |-> "Finalizing",          percent |-> 100] >>

\* the check modules runAudit awaits, in the order of its statements
CheckModules == << "plugins", "database", "performance", "security", "seo" >>

Severities == {"critical", "warning", "info"}

\* THRESHOLDS.severity_deduction
severity_deduction == [critical |-> 15, warning |-> 5, info |-> 1]

NULL == "null"
\* health_score is a nullable integer column
NULL_SCORE == -1

CANCELLED_MESSAGE == "Audit was manually cancelled"
TIMED_OUT_MESSAGE == "Audit timed out and was automatically cleaned up"

----------------------------------------------------------------------------
(* Helpers *)

Sites == 1 .. MaxSites
\* a host id no row of the sites table has
UnknownSite == MaxSites + 1

AuditIds == 1 .. Len(audits)

\* ages are counted in ticks and saturate at the first stale value
StaleAge == (STALE_THRESHOLD_MS \div TickMs) + 1

\* .lt('started_at', staleTime), staleTime = now - STALE_THRESHOLD_MS
IsStale(row) == row.age * TickMs > STALE_THRESHOLD_MS

RECURSIVE Deductions(_)
Deductions(list) ==
  IF list = <<>> THEN 0
  ELSE severity_deduction[Head(list).severity] + Deductions(Tail(list))

\* calculateHealthScore without the final Math.max / Math.min
calculateHealthScoreUnclamped(list) == 100 - Deductions(list)

calculateHealthScore(list) == Max(0, Min(100, 100 - Deductions(list)))

\* getHealthStatus with > in place of >=
getHealthStatusStrict(score) ==
  IF score > 90 THEN "healthy"
  ELSE IF score > 70 THEN "attention"
  ELSE "critical"

getHealthStatus(score) ==
  IF score >= 90 THEN "healthy"
  ELSE IF score >= 70 THEN "attention"
  ELSE "critical"

CountSeverity(list, sev) ==
  Cardinality({i \in 1 .. Len(list) : list[i].severity = sev})

\* summary = `Health: ${healthScore}/100. Found ${criticalCount} critical, ...`
HealthSummary(list) ==
  << "Health", calculateHealthScore(list),
     CountSeverity(list, "critical"), CountSeverity(list, "warning") >>

\* String(error) for the error a check module throws
ModuleError ==
  [plugins     |-> "Error: plugin checks failed",
   database    |-> "Error: database checks failed",
   performance |-> "Error: performance checks failed",
   security    |-> "Error: security checks failed",
   seo         |-> "Error: seo checks failed"]

SITE_NOT_FOUND == "Error: Site not found"
CREATE_FAILED == "Error: Failed to create audit"

\* the open issues of a host
OpenIssues(s) == {i \in issues : i.site_id = s /\ i.status = "open"}

\* the store calls that may still resolve with an error
StoreResults == IF faults < limits.faults THEN {TRUE, FALSE} ELSE {TRUE}

Fault(ok) == faults' = IF ok THEN faults ELSE faults + 1

\* the HTTP response of the step just taken, if it sent one
NoResponse == [op |-> "none", code |-> 0, n |-> 0]
Quiet == response' = NoResponse

\* a run whose promise has settled, or whose process is gone
Ended(pc) == pc \in {"resolved", "rejected", "dead"}

----------------------------------------------------------------------------
(* Init: empty audits and issues tables, no request in flight.  `limits`  *)
(* never changes; `cancelled` is the history of the audits a cancel      *)
(* request answered 200 for, `cleaned` that of the audits a cleanup      *)
(* counted as cleaned.                                                   *)

\* no runAllAudits call and no awaited runAudit call in progress
\* (`ran` is the history of the runs the call has launched)
NoBatch == [pc |-> "idle", todo |-> <<>>, run |-> 0,
            succeeded |-> 0, failed |-> 0, ran |-> <<>>]

\* no runCrawlChecks call in progress
NoCrawl == [pc |-> "idle"]

\* no function applied
NoCalc == [op |-> "none"]

\* the AuditButton before a click: loading false, auditId null, no request
\* of pollProgress in flight; `stopped` keeps what cleared loading last
NoClient ==
  [loading |-> FALSE, auditId |-> 0, polls |-> {}, stopped |-> "never"]

\* no runWPCLI call in progress
NoCall ==
  [pc        |-> "idle",
   T         |-> 0,
   now       |-> 0,
   conn      |-> "new",
   stream    |-> "none",
   resolved  |-> FALSE,
   ends      |-> 0,
   cmdTimer  |-> "none",
   hardTimer |-> "none",
   promise   |-> "pending",
   race      |-> "pending",
   seen      |-> {}]

Init ==
  /\ audits = <<>>
  /\ issues = {}
  /\ runs = <<>>
  /\ cancelReq = [pc |-> "idle", id |-> 0]
  /\ cleanupReq = [pc |-> "idle", stuck |-> {}]
  /\ response = NoResponse
  /\ faults = 0
  /\ limits = [audits |-> MaxAudits, faults |-> 0]
  /\ cancelled = {}
  /\ cleaned = {}
  /\ batch = NoBatch
  /\ ssh = NoCall
  /\ crawl = NoCrawl
  /\ calc = NoCalc
  /\ client = NoClient

----------------------------------------------------------------------------
(* POST /api/audits {siteId}: create the Audit row, launch the run detached *)

NewAudit(s) ==
  [site_id       |-> s,
   status        |-> "pending",
   age           |-> 0,
   completed_at  |-> NULL,
   health_score  |-> NULL_SCORE,
   summary       |-> <<"Starting audit...">>,
   raw_data      |-> [progress |-> <<[step |-> "Queued", percent |-> 0]>>,
                      data     |-> {}],
   error_message |-> NULL]

NewRun(s, a) ==
  [pc        |-> "lookup",
   site      |-> s,
   audit     |-> a,
   step      |-> 1,
   allIssues |-> <<>>,
   error     |-> NULL,
   ignored   |-> {},
   touched   |-> FALSE]

\* POST that launches the run and answers without inserting the Audit row
POSTWithoutRow(s) ==
  /\ Len(audits) < limits.audits
  /\ s \in Sites
  /\ runs' = Append(runs, NewRun(s, Len(audits) + 1))
  /\ response' = [op |-> "start", code |-> 200, n |-> Len(audits) + 1]
  /\ UNCHANGED <<audits, issues, cancelReq, cleanupReq, faults, limits,
                 cancelled, cleaned, batch, ssh, crawl,
                 calc, client>>

\* lines 77-124 of the route: verify the site, insert the row, launch the run
POST(s) ==
  /\ Len(audits) < limits.audits
  /\ \/ /\ s \notin Sites
        /\ response' = [op |-> "start", code |-> 404, n |-> 0]
        /\ UNCHANGED <<audits, runs, faults>>
     \/ /\ s \in Sites
        /\ \E okSite \in StoreResults :
             IF ~okSite
             THEN /\ response' = [op |-> "start", code |-> 404, n |-> 0]
                  /\ Fault(okSite)
                  /\ UNCHANGED <<audits, runs>>
             ELSE \E okInsert \in StoreResults :
                  /\ Fault(okInsert)
                  /\ IF okInsert
                     THEN /\ audits' = Append(audits, NewAudit(s))
                          /\ runs' = Append(runs, NewRun(s, Len(audits) + 1))
                          /\ response' = [op |-> "start", code |-> 200,
                                          n |-> Len(audits) + 1]
                     ELSE /\ response' = [op |-> "start", code |-> 500, n |-> 0]
                          /\ UNCHANGED <<audits, runs>>
  /\ UNCHANGED <<issues, cancelReq, cleanupReq, limits, cancelled,
                 cleaned, batch, ssh, crawl,
                 calc, client>>

----------------------------------------------------------------------------
(* runAudit(siteId, existingAuditId): one action per await *)

\* the history field `ignored` keeps the store calls of the run whose error
\* result the run discarded
Ignore(run, ok, what) ==
  IF ok THEN run.ignored ELSE run.ignored \cup {what}

\* SiteLookup that does not test the result of the site select
SiteLookupUnchecked(r) ==
  /\ runs[r].pc = "lookup"
  /\ runs' = [runs EXCEPT ![r].pc =
                 IF runs[r].audit = 0 THEN "create" ELSE "markRunning"]
  /\ Quiet
  /\ UNCHANGED <<audits, issues, cancelReq, cleanupReq, faults, limits,
                 cancelled, cleaned, batch, ssh, crawl,
                 calc, client>>

\* lines 46-58: the site select; an error is thrown outside the try block;
\* a run without existingAuditId (audit = 0) goes on to create its row
SiteLookup(r) ==
  /\ runs[r].pc = "lookup"
  /\ \E ok \in StoreResults :
       /\ Fault(ok)
       /\ runs' = [runs EXCEPT ![r] =
            IF ok /\ runs[r].site \in Sites
            THEN [@ EXCEPT !.pc = IF runs[r].audit = 0 THEN "create"
                                 ELSE "markRunning"]
            ELSE [@ EXCEPT !.pc = "rejected", !.error = SITE_NOT_FOUND]]
  /\ Quiet
  /\ UNCHANGED <<audits, issues, cancelReq, cleanupReq, limits, cancelled,
                 cleaned, batch, ssh, crawl,
                 calc, client>>

\* lines 58-67: update {status: 'running', started_at: now} .eq('id', id)
MarkRunningRow(row) == [row EXCEPT !.status = "running", !.age = 0]

MarkRunning(r) ==
  /\ runs[r].pc = "markRunning"
  /\ \E ok \in StoreResults :
       /\ Fault(ok)
       /\ audits' = IF ok
                    THEN [audits EXCEPT ![runs[r].audit] = MarkRunningRow(@)]
                    ELSE audits
       /\ runs' = [runs EXCEPT ![r].pc = "progress",
                               ![r].ignored = Ignore(runs[r], ok, "markRunning")]
  /\ Quiet
  /\ UNCHANGED <<issues, cancelReq, cleanupReq, limits, cancelled,
                 cleaned, batch, ssh, crawl,
                 calc, client>>

\* lines 70-78: the row a run without existingAuditId inserts
NewRunningAudit(s) ==
  [site_id       |-> s,
   status        |-> "running",
   age           |-> 0,
   completed_at  |-> NULL,
   health_score  |-> NULL_SCORE,
   summary       |-> <<"Starting audit...">>,
   raw_data      |-> [progress |-> <<[step    |-> "Starting audit...",
                                      percent |-> 0]>>,
                      data     |-> {}],
   error_message |-> NULL]

\* lines 68-86: insert the row; an error is thrown outside the try block
CreateAudit(r) ==
  /\ runs[r].pc = "create"
  /\ \E ok \in StoreResults :
       /\ Fault(ok)
       /\ IF ok
          THEN /\ audits' = Append(audits, NewRunningAudit(runs[r].site))
               /\ runs' = [runs EXCEPT ![r].pc = "progress",
                                       ![r].audit = Len(audits) + 1]
          ELSE /\ runs' = [runs EXCEPT ![r].pc = "rejected",
                                       ![r].error = CREATE_FAILED]
               /\ UNCHANGED audits
  /\ Quiet
  /\ UNCHANGED <<issues, cancelReq, cleanupReq, limits, cancelled,
                 cleaned, batch, ssh, crawl,
                 calc, client>>

\* lines 26-40: updateProgress writes summary and raw_data.progress
ProgressRow(row, st) ==
  [row EXCEPT !.summary = <<st.label>>,
              !.raw_data = [progress |-> <<[step    |-> st.label,
                                            percent |-> st.percent]>>,
                            data     |-> {}]]

updateProgress(r) ==
  /\ runs[r].pc = "progress"
  /\ \E ok \in StoreResults :
       /\ Fault(ok)
       /\ audits' = IF ok
                    THEN [audits EXCEPT ![runs[r].audit] =
                            ProgressRow(@, AUDIT_STEPS[runs[r].step])]
                    ELSE audits
       /\ runs' = [runs EXCEPT
            ![r].pc = IF runs[r].step <= Len(CheckModules)
                      THEN "check" ELSE "completed",
            ![r].ignored = Ignore(runs[r], ok, "progress")]
  /\ Quiet
  /\ UNCHANGED <<issues, cancelReq, cleanupReq, limits, cancelled,
                 cleaned, batch, ssh, crawl,
                 calc, client>>

\* the CheckResult.issues a module may return after the findings so far
ModuleFindings(key, sofar) ==
  {<<>>} \cup
  IF Len(sofar) < MaxFindings
  THEN {<<[category |-> key, severity |-> sev]>> : sev \in Severities}
  ELSE {}

\* lines 97-138: await run<Module>Checks; allIssues.push(...result.issues)
RunCheck(r) ==
  /\ runs[r].pc = "check"
  /\ LET key == CheckModules[runs[r].step] IN
       \/ \E found \in ModuleFindings(key, runs[r].allIssues) :
            runs' = [runs EXCEPT ![r].pc = "progress",
                                 ![r].step = @ + 1,
                                 ![r].allIssues = @ \o found]
       \/ runs' = [runs EXCEPT ![r].pc = "catch",
                               ![r].error = ModuleError[key]]
  /\ Quiet
  /\ UNCHANGED <<audits, issues, cancelReq, cleanupReq, faults, limits, cancelled,
                 cleaned, batch, ssh, crawl,
                 calc, client>>

\* lines 140-159: score, summary, update {status: 'completed', ...}
\* rawData holds the data of the five modules and no progress entry
rawData == [progress |-> <<>>,
            data     |-> {CheckModules[k] : k \in 1 .. Len(CheckModules)}]

\* CompletedRow that writes no health_score
CompletedRowWithoutScore(row, list) ==
  [row EXCEPT !.status = "completed",
              !.completed_at = "set",
              !.raw_data = rawData,
              !.summary = HealthSummary(list)]

CompletedRow(row, list) ==
  [row EXCEPT !.status = "completed",
              !.completed_at = "set",
              !.health_score = calculateHealthScore(list),
              !.raw_data = rawData,
              !.summary = HealthSummary(list)]

WriteCompleted(r) ==
  /\ runs[r].pc = "completed"
  /\ \E ok \in StoreResults :
       /\ Fault(ok)
       /\ audits' = IF ok
                    THEN [audits EXCEPT ![runs[r].audit] =
                            CompletedRow(@, runs[r].allIssues)]
                    ELSE audits
       /\ runs' = [runs EXCEPT ![r].pc = "close",
                               ![r].ignored = Ignore(runs[r], ok, "completed")]
  /\ Quiet
  /\ UNCHANGED <<issues, cancelReq, cleanupReq, limits, cancelled,
                 cleaned, batch, ssh, crawl,
                 calc, client>>

\* CloseRows without the status filter
CloseRowsOfAnyStatus(s) ==
  {IF i.site_id = s
     THEN [i EXCEPT !.status = "fixed", !.resolved_at = "set"]
     ELSE i : i \in issues}

\* CloseRows without the site_id filter
CloseRowsOfAllSites(s) ==
  {IF i.status = "open"
     THEN [i EXCEPT !.status = "fixed", !.resolved_at = "set"]
     ELSE i : i \in issues}

\* lines 161-166: update issues {status: 'fixed'} where site_id and open
CloseRows(s) ==
  {IF i.site_id = s /\ i.status = "open"
     THEN [i EXCEPT !.status = "fixed", !.resolved_at = "set"]
     ELSE i : i \in issues}

CloseIssues(r) ==
  /\ runs[r].pc = "close"
  /\ \E ok \in StoreResults :
       /\ Fault(ok)
       /\ issues' = IF ok THEN CloseRows(runs[r].site) ELSE issues
       /\ runs' = [runs EXCEPT
            ![r].pc = IF Len(runs[r].allIssues) > 0
                      THEN "insert" ELSE "resolved",
            ![r].ignored = Ignore(runs[r], ok, "close"),
            ![r].touched = @ \/ (ok /\ OpenIssues(runs[r].site) # {})]
  /\ Quiet
  /\ UNCHANGED <<audits, cancelReq, cleanupReq, limits, cancelled,
                 cleaned, batch, ssh, crawl,
                 calc, client>>

\* issuesToInsert that records every finding as info
issuesToInsertAsInfo(run) ==
  {[site_id     |-> run.site,
    audit_id    |-> run.audit,
    idx         |-> k,
    category    |-> run.allIssues[k].category,
    severity    |-> "info",
    status      |-> "open",
    resolved_at |-> NULL] : k \in 1 .. Len(run.allIssues)}

\* lines 168-177: insert allIssues with site_id and audit_id, status open
issuesToInsert(run) ==
  {[site_id     |-> run.site,
    audit_id    |-> run.audit,
    idx         |-> k,
    category    |-> run.allIssues[k].category,
    severity    |-> run.allIssues[k].severity,
    status      |-> "open",
    resolved_at |-> NULL] : k \in 1 .. Len(run.allIssues)}

InsertIssues(r) ==
  /\ runs[r].pc = "insert"
  /\ \E ok \in StoreResults :
       /\ Fault(ok)
       /\ issues' = IF ok THEN issues \cup issuesToInsert(runs[r]) ELSE issues
       /\ runs' = [runs EXCEPT ![r].pc = "resolved",
                               ![r].ignored = Ignore(runs[r], ok, "insert"),
                               ![r].touched = @ \/ ok]
  /\ Quiet
  /\ UNCHANGED <<audits, cancelReq, cleanupReq, limits, cancelled,
                 cleaned, batch, ssh, crawl,
                 calc, client>>

\* FailedRow that writes no error_message
FailedRowWithoutMessage(row, msg) ==
  [row EXCEPT !.status = "failed",
              !.completed_at = "set"]

\* lines 187-200: catch: update {status: 'failed', ...}; throw error
FailedRow(row, msg) ==
  [row EXCEPT !.status = "failed",
              !.completed_at = "set",
              !.error_message = msg]

\* CatchWrite that rethrows the error without writing the failed state
CatchWriteOnlyRethrows(r) ==
  /\ runs[r].pc = "catch"
  /\ runs' = [runs EXCEPT ![r].pc = "rejected"]
  /\ Quiet
  /\ UNCHANGED <<audits, issues, cancelReq, cleanupReq, faults, limits,
                 cancelled, cleaned, batch, ssh, crawl,
                 calc, client>>

CatchWrite(r) ==
  /\ runs[r].pc = "catch"
  /\ \E ok \in StoreResults :
       /\ Fault(ok)
       /\ audits' = IF ok
                    THEN [audits EXCEPT ![runs[r].audit] =
                            FailedRow(@, runs[r].error)]
                    ELSE audits
       /\ runs' = [runs EXCEPT ![r].pc = "rejected",
                               ![r].ignored = Ignore(runs[r], ok, "failed")]
  /\ Quiet
  /\ UNCHANGED <<issues, cancelReq, cleanupReq, limits, cancelled,
                 cleaned, batch, ssh, crawl,
                 calc, client>>

\* the process executing the detached run dies between two awaits
RunDies(r) ==
  /\ ~Ended(runs[r].pc)
  /\ faults < limits.faults
  /\ faults' = faults + 1
  /\ runs' = [runs EXCEPT ![r].pc = "dead"]
  /\ Quiet
  /\ UNCHANGED <<audits, issues, cancelReq, cleanupReq, limits, cancelled,
                 cleaned, batch, ssh, crawl,
                 calc, client>>

----------------------------------------------------------------------------
(* DELETE /api/audits/[id]: cancel one audit *)

CanCancel(status) == status = "running" \/ status = "pending"

\* lines 55-71: select status; 404 when absent, 400 unless running/pending
CancelSelect(id) ==
  /\ cancelReq.pc = "idle"
  /\ \E ok \in StoreResults :
       /\ Fault(ok)
       /\ IF ~ok \/ id \notin AuditIds
          THEN /\ response' = [op |-> "cancel", code |-> 404, n |-> id]
               /\ UNCHANGED cancelReq
          ELSE IF ~CanCancel(audits[id].status)
          THEN /\ response' = [op |-> "cancel", code |-> 400, n |-> id]
               /\ UNCHANGED cancelReq
          ELSE /\ cancelReq' = [pc |-> "update", id |-> id]
               /\ Quiet
  /\ UNCHANGED <<audits, issues, runs, cleanupReq, limits, cancelled,
                 cleaned, batch, ssh, crawl,
                 calc, client>>

\* CancelRow that leaves completed_at as it was
CancelRowWithoutCompletedAt(row) ==
  [row EXCEPT !.status = "failed",
              !.error_message = CANCELLED_MESSAGE]

\* lines 73-80: update {status: 'failed', completed_at, error_message}
CancelRow(row) == FailedRow(row, CANCELLED_MESSAGE)

\* lines 73-86
CancelUpdate ==
  /\ cancelReq.pc = "update"
  /\ \E ok \in StoreResults :
       /\ Fault(ok)
       /\ IF ok
          THEN /\ audits' = [audits EXCEPT ![cancelReq.id] = CancelRow(@)]
               /\ response' = [op |-> "cancel", code |-> 200, n |-> cancelReq.id]
               /\ cancelled' = cancelled \cup {cancelReq.id}
          ELSE /\ response' = [op |-> "cancel", code |-> 500, n |-> cancelReq.id]
               /\ UNCHANGED <<audits, cancelled>>
  /\ cancelReq' = [pc |-> "idle", id |-> 0]
  /\ UNCHANGED <<issues, runs, cleanupReq, limits, cleaned, batch, ssh, crawl,
                 calc, client>>

----------------------------------------------------------------------------
(* DELETE /api/audits: fail the audits stuck for more than 5 minutes *)

\* stuckAudits that selects the running audits only
stuckAuditsRunningOnly ==
  {a \in AuditIds : audits[a].status = "running" /\ IsStale(audits[a])}

\* lines 139-144: .in('status', ['running','pending']).lt('started_at', staleTime)
stuckAudits ==
  {a \in AuditIds : audits[a].status \in {"running", "pending"}
                    /\ IsStale(audits[a])}

\* lines 137-152
CleanupSelect ==
  /\ cleanupReq.pc = "idle"
  /\ \E ok \in StoreResults :
       /\ Fault(ok)
       /\ IF ~ok
          THEN /\ response' = [op |-> "cleanup", code |-> 500, n |-> 0]
               /\ UNCHANGED cleanupReq
          ELSE IF stuckAudits = {}
          THEN /\ response' = [op |-> "cleanup", code |-> 200, n |-> 0]
               /\ UNCHANGED cleanupReq
          ELSE /\ cleanupReq' = [pc |-> "update", stuck |-> stuckAudits]
               /\ Quiet
  /\ UNCHANGED <<audits, issues, runs, cancelReq, limits, cancelled,
                 cleaned, batch, ssh, crawl,
                 calc, client>>

\* lines 154-162: update {...} .in('id', stuckAudits.map(a => a.id))
CleanupRows(stuck) ==
  [a \in AuditIds |->
     IF a \in stuck THEN FailedRow(audits[a], TIMED_OUT_MESSAGE) ELSE audits[a]]

\* lines 154-172
CleanupUpdate ==
  /\ cleanupReq.pc = "update"
  /\ \E ok \in StoreResults :
       /\ Fault(ok)
       /\ IF ok
          THEN /\ audits' = CleanupRows(cleanupReq.stuck)
               /\ response' = [op |-> "cleanup", code |-> 200,
                               n |-> Cardinality(cleanupReq.stuck)]
               /\ cleaned' = cleaned \cup cleanupReq.stuck
          ELSE /\ response' = [op |-> "cleanup", code |-> 500, n |-> 0]
               /\ UNCHANGED <<audits, cleaned>>
  /\ cleanupReq' = [pc |-> "idle", stuck |-> {}]
  /\ UNCHANGED <<issues, runs, cancelReq, limits, cancelled, batch, ssh, crawl,
                 calc, client>>

----------------------------------------------------------------------------
(* runAllAudits(), and the request that awaits runAudit(siteId) *)

\* the rows of the sites table, in the order the select returns them
SiteList == [k \in 1 .. MaxSites |-> k]

\* lines 203-213: select the sites; no data or no row returns {0, 0}
runAllAudits ==
  /\ batch.pc = "idle"
  /\ \E ok \in StoreResults :
       /\ Fault(ok)
       /\ IF ok /\ Len(SiteList) > 0
          THEN /\ batch' = [batch EXCEPT !.pc = "loop", !.todo = SiteList]
               /\ Quiet
          ELSE /\ batch' = [batch EXCEPT !.pc = "done"]
               /\ response' = [op |-> "startAll", code |-> 200, n |-> 0]
  /\ UNCHANGED <<audits, issues, runs, cancelReq, cleanupReq, limits,
                 cancelled, cleaned, ssh, crawl,
                 calc, client>>

\* lines 215-218: the next site of the loop: await runAudit(site.id)
BatchLaunch ==
  /\ batch.pc = "loop"
  /\ batch.todo # <<>>
  /\ runs' = Append(runs, NewRun(Head(batch.todo), 0))
  /\ batch' = [batch EXCEPT !.pc = "await",
                            !.run = Len(runs) + 1,
                            !.ran = Append(@, Len(runs) + 1)]
  /\ Quiet
  /\ UNCHANGED <<audits, issues, cancelReq, cleanupReq, faults, limits,
                 cancelled, cleaned, ssh, crawl,
                 calc, client>>

\* lines 218-223: succeeded++ when the run returned, failed++ when it threw
BatchCollect ==
  /\ batch.pc = "await"
  /\ runs[batch.run].pc \in {"resolved", "rejected"}
  /\ batch' = [batch EXCEPT
       !.pc = "loop",
       !.todo = Tail(@),
       !.succeeded = IF runs[batch.run].pc = "resolved" THEN @ + 1 ELSE @,
       !.failed = IF runs[batch.run].pc = "rejected" THEN @ + 1 ELSE @]
  /\ Quiet
  /\ UNCHANGED <<audits, issues, runs, cancelReq, cleanupReq, faults, limits,
                 cancelled, cleaned, ssh, crawl,
                 calc, client>>

\* line 226: return {succeeded, failed}
BatchReturn ==
  /\ batch.pc = "loop"
  /\ batch.todo = <<>>
  /\ batch' = [batch EXCEPT !.pc = "done"]
  /\ response' = [op |-> "startAll", code |-> 200,
                  n |-> batch.succeeded + batch.failed]
  /\ UNCHANGED <<audits, issues, runs, cancelReq, cleanupReq, faults, limits,
                 cancelled, cleaned, ssh, crawl,
                 calc, client>>

\* route.ts lines 14-18: await runAudit(siteId)
RunOne(s) ==
  /\ batch.pc = "idle"
  /\ runs' = Append(runs, NewRun(s, 0))
  /\ batch' = [batch EXCEPT !.pc = "awaitOne", !.run = Len(runs) + 1]
  /\ Quiet
  /\ UNCHANGED <<audits, issues, cancelReq, cleanupReq, faults, limits,
                 cancelled, cleaned, ssh, crawl,
                 calc, client>>

\* route.ts lines 19-25: the result of the run, or 500 when it threw
RunOneRespond ==
  /\ batch.pc = "awaitOne"
  /\ runs[batch.run].pc \in {"resolved", "rejected"}
  /\ batch' = [batch EXCEPT !.pc = "done"]
  /\ response' = [op   |-> "run",
                  code |-> IF runs[batch.run].pc = "resolved"
                           THEN 200 ELSE 500,
                  n    |-> runs[batch.run].audit]
  /\ UNCHANGED <<audits, issues, runs, cancelReq, cleanupReq, faults, limits,
                 cancelled, cleaned, ssh, crawl,
                 calc, client>>

----------------------------------------------------------------------------
(* The clock: Date.now() advances by TickMs *)

Tick ==
  /\ \E a \in AuditIds : audits[a].age < StaleAge
  /\ audits' = [a \in AuditIds |->
                  [audits[a] EXCEPT !.age = Min(@ + 1, StaleAge)]]
  /\ Quiet
  /\ UNCHANGED <<issues, runs, cancelReq, cleanupReq, faults, limits, cancelled,
                 cleaned, batch, ssh, crawl,
                 calc, client>>

----------------------------------------------------------------------------

RunIds == 1 .. Len(runs)

\* the requests for audits and the steps of the runs they launch
NextRuns ==
  \/ \E s \in Sites \cup {UnknownSite} : POST(s)
  \/ \E r \in RunIds : SiteLookup(r)
  \/ \E r \in RunIds : MarkRunning(r)
  \/ \E r \in RunIds : updateProgress(r)
  \/ \E r \in RunIds : RunCheck(r)
  \/ \E r \in RunIds : WriteCompleted(r)
  \/ \E r \in RunIds : CloseIssues(r)
  \/ \E r \in RunIds : InsertIssues(r)
  \/ \E r \in RunIds : CatchWrite(r)

\* the cancel and cleanup requests, and the clock
NextHandlers ==
  \/ \E id \in 1 .. limits.audits : CancelSelect(id)
  \/ CancelUpdate
  \/ CleanupSelect
  \/ CleanupUpdate
  \/ Tick

Next == NextRuns \/ NextHandlers

\* the store applies every call and no process dies
Spec == Init /\ [][Next]_vars

\* concurrent runs: several audits in flight, no cancel or cleanup request
InitRuns ==
  /\ audits = <<>>
  /\ issues = {}
  /\ runs = <<>>
  /\ cancelReq = [pc |-> "idle", id |-> 0]
  /\ cleanupReq = [pc |-> "idle", stuck |-> {}]
  /\ response = NoResponse
  /\ faults = 0
  /\ limits = [audits |-> MaxConcurrentAudits, faults |-> 0]
  /\ cancelled = {}
  /\ cleaned = {}
  /\ batch = NoBatch
  /\ ssh = NoCall
  /\ crawl = NoCrawl
  /\ calc = NoCalc
  /\ client = NoClient

SpecRuns == InitRuns /\ [][NextRuns]_vars

\* Issues of earlier Audits (audit_id 0) as the issues table may hold them:
\* one of each status of the schema on the first host, resolved_at of the
\* fixed one written at an earlier time, and an ignored one on the last
PriorIssues ==
  {[site_id |-> 1, audit_id |-> 0, idx |-> 1, category |-> "plugins",
    severity |-> "warning", status |-> "open", resolved_at |-> NULL],
   [site_id |-> 1, audit_id |-> 0, idx |-> 2, category |-> "security",
    severity |-> "critical", status |-> "ignored", resolved_at |-> NULL],
   [site_id |-> 1, audit_id |-> 0, idx |-> 3, category |-> "database",
    severity |-> "info", status |-> "in_progress", resolved_at |-> NULL],
   [site_id |-> 1, audit_id |-> 0, idx |-> 4, category |-> "seo",
    severity |-> "warning", status |-> "fixed", resolved_at |-> "earlier"],
   [site_id |-> MaxSites, audit_id |-> 0, idx |-> 5, category |-> "seo",
    severity |-> "info", status |-> "ignored", resolved_at |-> NULL]}

\* concurrent runs on hosts that have Issues of earlier Audits
InitTriaged ==
  /\ audits = <<>>
  /\ issues = PriorIssues
  /\ runs = <<>>
  /\ cancelReq = [pc |-> "idle", id |-> 0]
  /\ cleanupReq = [pc |-> "idle", stuck |-> {}]
  /\ response = NoResponse
  /\ faults = 0
  /\ limits = [audits |-> MaxConcurrentAudits, faults |-> 0]
  /\ cancelled = {}
  /\ cleaned = {}
  /\ batch = NoBatch
  /\ ssh = NoCall
  /\ crawl = NoCrawl
  /\ calc = NoCalc
  /\ client = NoClient

SpecTriaged == InitTriaged /\ [][NextRuns]_vars

\* store calls may resolve with an error and the process of a run may die
InitFaults ==
  /\ audits = <<>>
  /\ issues = {}
  /\ runs = <<>>
  /\ cancelReq = [pc |-> "idle", id |-> 0]
  /\ cleanupReq = [pc |-> "idle", stuck |-> {}]
  /\ response = NoResponse
  /\ faults = 0
  /\ limits = [audits |-> MaxFaultyAudits, faults |-> MaxFaults]
  /\ cancelled = {}
  /\ cleaned = {}
  /\ batch = NoBatch
  /\ ssh = NoCall
  /\ crawl = NoCrawl
  /\ calc = NoCalc
  /\ client = NoClient

NextFaults ==
  \/ Next
  \/ \E r \in RunIds : RunDies(r)

SpecFaults == InitFaults /\ [][NextFaults]_vars

\* SpecFaults with a clock that keeps advancing and a watchdog that keeps
\* being invoked and answered; nothing is assumed of the runs
SpecWatchdog ==
  /\ SpecFaults
  /\ WF_vars(Tick)
  /\ WF_vars(CleanupSelect)
  /\ WF_vars(CleanupUpdate)

----------------------------------------------------------------------------
(* runWPCLI(config, command, {timeout}): one remote command over SSH.      *)
(* `ssh` is the state of one call: the closure variables of the executor   *)
(* (resolved, the command timer), the client (conn, stream), the promise   *)
(* of the connection and the promise the call returns (race).  Times are   *)
(* milliseconds since the call; `ends` counts the conn.end() calls and     *)
(* `seen` keeps the client events that have fired.                         *)

\* the timeouts the program calls runWPCLI with
DEFAULT_TIMEOUT_MS == 120000
VERIFY_CHECKSUMS_TIMEOUT_MS == 180000
UPDATE_ALL_TIMEOUT_MS == 300000

Timeouts ==
  {DEFAULT_TIMEOUT_MS, VERIFY_CHECKSUMS_TIMEOUT_MS, UPDATE_ALL_TIMEOUT_MS}

\* the hard timeout is armed with timeout + 5000
HARD_TIMEOUT_EXTRA_MS == 5000

OUTPUT == "output"
WPCLI_ERROR == "Error: WP-CLI error (code 1)"
EXEC_ERROR == "Error: exec failed"
SSH_ERROR == "Error: SSH connection error"
UNEXPECTED_CLOSE == "Error: SSH connection closed unexpectedly"
TIMED_OUT ==
  [ssh     |-> "Error: SSH connection timed out",
   command |-> "Error: WP-CLI command timed out",
   hard    |-> "Error: SSH operation timed out (hard timeout)"]
KEY_NOT_CONFIGURED == "Error: WPENGINE_SSH_PRIVATE_KEY not configured"

\* cleanup without the test of `resolved`
cleanupUnguarded(c) ==
  [c EXCEPT !.resolved = TRUE,
            !.cmdTimer = IF @ = "armed" THEN "cleared" ELSE @,
            !.ends = @ + 1,
            !.conn = IF @ = "closed" THEN "closed" ELSE "ended"]

\* lines 44-53: if (resolved) return; resolved = true; clearTimeout; conn.end()
cleanup(c) ==
  IF c.resolved THEN c
  ELSE [c EXCEPT !.resolved = TRUE,
                 !.cmdTimer = IF @ = "armed" THEN "cleared" ELSE @,
                 !.ends = @ + 1,
                 !.conn = IF @ = "closed" THEN "closed" ELSE "ended"]

\* resolve/reject of the connection promise: the first settlement counts,
\* and Promise.race (line 118) takes it over unless already settled
settle(c, outcome) ==
  IF c.promise # "pending" THEN c
  ELSE [c EXCEPT !.promise = outcome,
                 !.race = IF @ = "pending" THEN outcome ELSE @]

\* a timer whose delay never runs out
ExpiredNever(delay) == FALSE

\* setTimeout(callback, delay): the callback is due once delay has passed
Expired(delay) == ssh.now >= delay

Unrelated ==
  /\ Quiet
  /\ UNCHANGED <<audits, issues, runs, cancelReq, cleanupReq, faults, limits,
                 cancelled, cleaned, batch, crawl, calc, client>>

\* lines 34-58, 108-116: arm the command timer, register the handlers,
\* connect (getSSHConfig throws inside the executor when the key is not
\* configured), arm the hard timer
runWPCLI(timeout, keyConfigured) ==
  /\ ssh.pc = "idle"
  /\ LET c == [NoCall EXCEPT !.pc = "called",
                             !.T = timeout,
                             !.cmdTimer = "armed",
                             !.hardTimer = "armed"]
     IN ssh' = IF keyConfigured
               THEN [c EXCEPT !.conn = "connecting"]
               ELSE settle(c, KEY_NOT_CONFIGURED)
  /\ Unrelated

\* lines 60-64: 'ready': conn.exec(fullCommand, callback)
Ready ==
  /\ ssh.pc = "called"
  /\ ssh.conn = "connecting"
  /\ ssh' = [ssh EXCEPT !.conn = "ready", !.stream = "pending"]
  /\ Unrelated

\* lines 64-69: the exec callback; with err: cleanup(); reject(err)
ExecCallback(err) ==
  /\ ssh.pc = "called"
  /\ ssh.stream = "pending"
  /\ IF err
     THEN ssh' = settle(cleanup([ssh EXCEPT !.stream = "refused"]), EXEC_ERROR)
     ELSE /\ ssh.conn = "ready"
          /\ ssh' = [ssh EXCEPT !.stream = "open"]
  /\ Unrelated

\* lines 79-87: stream 'close': cleanup(); resolve on code 0, else reject
StreamClose(code) ==
  /\ ssh.pc = "called"
  /\ ssh.stream = "open"
  /\ ssh' = settle(cleanup([ssh EXCEPT !.stream = "closed"]),
                   IF code = 0 THEN OUTPUT ELSE WPCLI_ERROR)
  /\ Unrelated

\* lines 91-94: conn 'error': cleanup(); reject
ConnError ==
  /\ ssh.pc = "called"
  /\ ssh.conn \in {"connecting", "ready", "ended"}
  /\ "error" \notin ssh.seen
  /\ ssh' = settle(cleanup([ssh EXCEPT !.seen = @ \cup {"error"}]), SSH_ERROR)
  /\ Unrelated

\* lines 96-101: conn 'close': if (!resolved) { cleanup(); reject }
ConnClose ==
  /\ ssh.pc = "called"
  /\ ssh.conn \in {"connecting", "ready", "ended"}
  /\ LET c == [ssh EXCEPT !.conn = "closed", !.seen = @ \cup {"close"}]
     IN ssh' = IF ~c.resolved THEN settle(cleanup(c), UNEXPECTED_CLOSE) ELSE c
  /\ Unrelated

\* lines 103-106: conn 'timeout': cleanup(); reject
ConnTimeout ==
  /\ ssh.pc = "called"
  /\ ssh.conn \in {"connecting", "ready"}
  /\ "timeout" \notin ssh.seen
  /\ ssh' = settle(cleanup([ssh EXCEPT !.seen = @ \cup {"timeout"}]),
                   TIMED_OUT.ssh)
  /\ Unrelated

\* lines 55-58: the command timer: cleanup(); reject
CommandTimeout ==
  /\ ssh.pc = "called"
  /\ ssh.cmdTimer = "armed"
  /\ Expired(ssh.T)
  /\ ssh' = settle(cleanup([ssh EXCEPT !.cmdTimer = "fired"]),
                   TIMED_OUT.command)
  /\ Unrelated

\* lines 112-116: the hard timer rejects the second promise of the race;
\* a due timer with the shorter delay runs first
hardTimeout ==
  /\ ssh.pc = "called"
  /\ ssh.hardTimer = "armed"
  /\ ssh.cmdTimer # "armed"
  /\ Expired(ssh.T + HARD_TIMEOUT_EXTRA_MS)
  /\ ssh' = [ssh EXCEPT !.hardTimer = "fired",
                        !.race = IF @ = "pending" THEN TIMED_OUT.hard ELSE @]
  /\ Unrelated

\* the instants the clock of a call visits
Instants(c) ==
  {c.T, c.T + HARD_TIMEOUT_EXTRA_MS, c.T + HARD_TIMEOUT_EXTRA_MS + 1}

\* time passes to the next instant unless a timer is armed and due
Elapse ==
  /\ ssh.pc = "called"
  /\ ~(ssh.cmdTimer = "armed" /\ Expired(ssh.T))
  /\ ~(ssh.hardTimer = "armed" /\ Expired(ssh.T + HARD_TIMEOUT_EXTRA_MS))
  /\ \E t \in Instants(ssh) :
       /\ t > ssh.now
       /\ \A u \in Instants(ssh) : u > ssh.now => t <= u
       /\ ssh' = [ssh EXCEPT !.now = t]
  /\ Unrelated

InitRemote ==
  /\ audits = <<>>
  /\ issues = {}
  /\ runs = <<>>
  /\ cancelReq = [pc |-> "idle", id |-> 0]
  /\ cleanupReq = [pc |-> "idle", stuck |-> {}]
  /\ response = NoResponse
  /\ faults = 0
  /\ limits = [audits |-> 0, faults |-> 0]
  /\ cancelled = {}
  /\ cleaned = {}
  /\ batch = NoBatch
  /\ ssh = NoCall
  /\ crawl = NoCrawl
  /\ calc = NoCalc
  /\ client = NoClient

NextRemote ==
  \/ \E timeout \in Timeouts, keyConfigured \in BOOLEAN :
       runWPCLI(timeout, keyConfigured)
  \/ Ready
  \/ \E err \in BOOLEAN : ExecCallback(err)
  \/ \E code \in {0, 1} : StreamClose(code)
  \/ ConnError
  \/ ConnClose
  \/ ConnTimeout
  \/ CommandTimeout
  \/ hardTimeout
  \/ Elapse

SpecRemote == InitRemote /\ [][NextRemote]_vars

----------------------------------------------------------------------------
(* runCrawlChecks(config): the crawl module and its retry loop.  `crawl`   *)
(* holds the locals of one call (crawlSettings, attempts), its position,   *)
(* and the histories `calls` (the settings of every crawl invocation) and  *)
(* `errors` (the message of every failed invocation).  A message is the    *)
(* sequence of its words.                                                  *)

\* CRAWL_CONFIG.LIMITS of the two size categories getOptimalCrawlSettings uses
LIMITS ==
  [MEDIUM_SITE    |-> [maxPages |-> 100, timeout |-> 300000,
                       includePageSpeed |-> TRUE],
   ECOMMERCE_SITE |-> [maxPages |-> 150, timeout |-> 450000,
                       includePageSpeed |-> TRUE]]

\* CRAWL_CONFIG.PAGE_BUILDER_SETTINGS, the multiplier in tenths
PAGE_BUILDER_SETTINGS ==
  [elementor |-> [timeoutMultiplier10 |-> 15, includePageSpeed |-> TRUE],
   beaver    |-> [timeoutMultiplier10 |-> 12, includePageSpeed |-> TRUE],
   gutenberg |-> [timeoutMultiplier10 |-> 10, includePageSpeed |-> TRUE],
   other     |-> [timeoutMultiplier10 |-> 10, includePageSpeed |-> TRUE]]

RETRY_ATTEMPTS == 2

FALLBACK_SETTINGS ==
  [maxPages |-> 25, timeout |-> 120000, includePageSpeed |-> FALSE]

SKIP_CONDITIONS ==
  << <<"Authentication", "required">>,
     <<"Site", "unreachable">>,
     <<"Timeout", "exceeded">>,
     <<"License", "invalid">> >>

\* THRESHOLDS: the cache hit ratios 0.7 and 0.5 as fractions, and the
\* limits of the crawl findings
THRESHOLDS ==
  [cache_hit_ratio |-> [warning  |-> [num |-> 7, den |-> 10],
                        critical |-> [num |-> 1, den |-> 2]],
   CRAWL_ERROR_RATE_WARNING   |-> 5,
   CRAWL_ERROR_RATE_CRITICAL  |-> 10,
   AVG_RESPONSE_TIME_WARNING  |-> 2000,
   AVG_RESPONSE_TIME_CRITICAL |-> 4000,
   SLOW_PAGES_WARNING         |-> 3,
   SLOW_PAGES_CRITICAL        |-> 8,
   BROKEN_LINKS_WARNING       |-> 5,
   BROKEN_LINKS_CRITICAL      |-> 15]

\* an option the caller left out (0 and undefined are what || and ??
\* replace); the includePageSpeed option is written "true" / "false"
UNSET == "undefined"

\* the configs runCrawlChecks is called with
CrawlConfigs ==
  [is_ecommerce     : BOOLEAN,
   page_builder     : {"elementor", "beaver", "other"},
   maxPages         : {0, 10},
   timeout          : {0, 60000},
   includePageSpeed : {UNSET, "false"}]

\* the messages of the errors a crawl invocation fails with
CrawlErrors ==
  { <<"Crawl", "failed:", "authentication", "required">>,
    <<"Site", "unreachable">>,
    <<"TIMEOUT", "EXCEEDED", "after", "300s">>,
    <<"License", "invalid">>,
    <<"required", "Authentication">>,
    <<"Timeout">>,
    <<"Connection", "reset">> }

\* the summaries a crawl invocation succeeds with
CrawlResults ==
  { [total_urls |-> 20, errors_4xx |-> 0, errors_5xx |-> 0,
     avg_response_time_ms |-> 500, slow_pages_count |-> 0,
     broken_links_count |-> 0],
    [total_urls |-> 0, errors_4xx |-> 0, errors_5xx |-> 0,
     avg_response_time_ms |-> 0, slow_pages_count |-> 0,
     broken_links_count |-> 0],
    [total_urls |-> 40, errors_4xx |-> 2, errors_5xx |-> 1,
     avg_response_time_ms |-> 2500, slow_pages_count |-> 4,
     broken_links_count |-> 6],
    [total_urls |-> 100, errors_4xx |-> 4, errors_5xx |-> 7,
     avg_response_time_ms |-> 4500, slow_pages_count |-> 9,
     broken_links_count |-> 16] }

\* String.prototype.toLowerCase that changes nothing
toLowerCaseIdentity(msg) == msg

LowerWord(w) ==
  CASE w = "Authentication" -> "authentication"
    [] w = "Site"           -> "site"
    [] w = "Timeout"        -> "timeout"
    [] w = "TIMEOUT"        -> "timeout"
    [] w = "EXCEEDED"       -> "exceeded"
    [] w = "License"        -> "license"
    [] w = "Crawl"          -> "crawl"
    [] w = "Connection"     -> "connection"
    [] OTHER                -> w

\* String.prototype.toLowerCase
toLowerCase(msg) == [k \in 1 .. Len(msg) |-> LowerWord(msg[k])]

\* String.prototype.includes
includes(msg, part) ==
  \E i \in 0 .. Len(msg) - Len(part) :
    SubSeq(msg, i + 1, i + Len(part)) = part

\* line 67-69: SKIP_CONDITIONS.some(condition => ...)
shouldSkip(errorMessage) ==
  \E k \in 1 .. Len(SKIP_CONDITIONS) :
    includes(toLowerCase(errorMessage), toLowerCase(SKIP_CONDITIONS[k]))

\* Math.round(a / b) for a >= 0, b > 0
RoundDiv(a, b) == (2 * a + b) \div (2 * b)

\* getOptimalCrawlSettings (the three settings runCrawlChecks reads)
getOptimalCrawlSettings(site) ==
  LET baseSettings == IF site.is_ecommerce THEN LIMITS.ECOMMERCE_SITE
                      ELSE LIMITS.MEDIUM_SITE
      builderSettings == PAGE_BUILDER_SETTINGS[site.page_builder]
  IN [maxPages |-> baseSettings.maxPages,
      timeout  |-> RoundDiv(baseSettings.timeout
                              * builderSettings.timeoutMultiplier10, 10),
      includePageSpeed |-> baseSettings.includePageSpeed
                             /\ builderSettings.includePageSpeed]

\* lines 26-38: the settings of the first attempt
InitialSettings(config) ==
  LET optimalSettings == getOptimalCrawlSettings(config)
  IN [maxPages |-> IF config.maxPages # 0 THEN config.maxPages
                   ELSE optimalSettings.maxPages,
      timeout  |-> IF config.timeout # 0 THEN config.timeout
                   ELSE optimalSettings.timeout,
      includePageSpeed |-> IF config.includePageSpeed # UNSET
                           THEN config.includePageSpeed = "true"
                           ELSE optimalSettings.includePageSpeed]

\* an assignment of the fallback that keeps the smaller page limit and timeout
assignFallbackKeepingSmaller(settings) ==
  [maxPages |-> Min(settings.maxPages, FALLBACK_SETTINGS.maxPages),
   timeout  |-> Min(settings.timeout, FALLBACK_SETTINGS.timeout),
   includePageSpeed |-> FALLBACK_SETTINGS.includePageSpeed]

\* line 80: Object.assign(crawlSettings, FALLBACK_SETTINGS)
assignFallback(settings) ==
  [key \in DOMAIN settings \cup DOMAIN FALLBACK_SETTINGS |->
     IF key \in DOMAIN FALLBACK_SETTINGS THEN FALLBACK_SETTINGS[key]
     ELSE settings[key]]

\* Math.round(errorRate * 100) with errorRate = totalErrors / totalPages * 100
\* (error_rate_percent in hundredths of a percent)
ErrorRate100(results) ==
  IF results.total_urls > 0
  THEN RoundDiv((results.errors_4xx + results.errors_5xx) * 10000,
                results.total_urls)
  ELSE 0

CrawlIssue(severity, title) ==
  [category |-> "performance", severity |-> severity, title |-> title]

IssueIf(cond, severity, title) ==
  IF cond THEN <<CrawlIssue(severity, title)>> ELSE <<>>

\* lines 134-262: processCrawlResults and generateCrawlIssues
generateCrawlIssues(results) ==
  IssueIf(results.errors_5xx > 0,
          IF results.errors_5xx > 5
          THEN "critical" ELSE "warning",
          "server errors detected")
  \o IssueIf(ErrorRate100(results) > THRESHOLDS.CRAWL_ERROR_RATE_WARNING * 100,
             IF ErrorRate100(results) > THRESHOLDS.CRAWL_ERROR_RATE_CRITICAL * 100
             THEN "critical" ELSE "warning",
             "High error rate")
  \o IssueIf(results.avg_response_time_ms > THRESHOLDS.AVG_RESPONSE_TIME_WARNING,
             IF results.avg_response_time_ms > THRESHOLDS.AVG_RESPONSE_TIME_CRITICAL
             THEN "critical" ELSE "warning",
             "Slow average response time")
  \o IssueIf(results.slow_pages_count > THRESHOLDS.SLOW_PAGES_WARNING,
             IF results.slow_pages_count > THRESHOLDS.SLOW_PAGES_CRITICAL
             THEN "critical" ELSE "warning",
             "slow pages detected")
  \o IssueIf(results.broken_links_count > THRESHOLDS.BROKEN_LINKS_WARNING,
             IF results.broken_links_count > THRESHOLDS.BROKEN_LINKS_CRITICAL
             THEN "warning" ELSE "info",
             "broken links found")

\* lines 95-131: the result of the outer catch
FailedCrawl(errorMessage) ==
  [total_pages |-> 0,
   issues      |-> <<CrawlIssue("warning", "Site crawl failed")>>,
   description |-> errorMessage]

OnlyCrawl ==
  /\ Quiet
  /\ UNCHANGED <<audits, issues, runs, cancelReq, cleanupReq, faults, limits,
                 cancelled, cleaned, batch, ssh, calc, client>>

\* lines 19-58: choose the settings, enter the loop, first invocation
runCrawlChecks(config) ==
  /\ crawl.pc = "idle"
  /\ crawl' = [pc            |-> "attempt",
               config        |-> config,
               crawlSettings |-> InitialSettings(config),
               attempts      |-> 0,
               calls         |-> <<InitialSettings(config)>>,
               errors        |-> <<>>,
               processed     |-> FALSE,
               result        |-> [total_pages |-> 0, issues |-> <<>>,
                                  description |-> <<>>]]
  /\ OnlyCrawl

\* lines 55-59, 85-93: the invocation returns; process, generate, return
CrawlSucceeds(results) ==
  /\ crawl.pc = "attempt"
  /\ crawl' = [crawl EXCEPT
       !.pc = "returned",
       !.processed = TRUE,
       !.result = [total_pages |-> results.total_urls,
                   issues      |-> generateCrawlIssues(results),
                   description |-> <<>>]]
  /\ OnlyCrawl

\* CrawlFails whose rethrow is decided by the skip conditions alone
CrawlFailsUnbounded(errorMessage) ==
  /\ crawl.pc = "attempt"
  /\ LET attempts == crawl.attempts + 1
         failed == [crawl EXCEPT !.attempts = attempts,
                                 !.errors = Append(@, errorMessage)]
     IN crawl' = IF shouldSkip(errorMessage)
                 THEN [failed EXCEPT !.pc = "returned",
                                     !.result = FailedCrawl(errorMessage)]
                 ELSE [failed EXCEPT !.pc = "backoff"]
  /\ OnlyCrawl

\* CrawlFails that lets the error of the last attempt leave the module
CrawlFailsRaising(errorMessage) ==
  /\ crawl.pc = "attempt"
  /\ crawl' = [crawl EXCEPT
       !.attempts = @ + 1,
       !.errors = Append(@, errorMessage),
       !.pc = IF shouldSkip(errorMessage)
                 \/ crawl.attempts + 1 >= RETRY_ATTEMPTS
              THEN "raised" ELSE "backoff"]
  /\ OnlyCrawl

\* lines 60-73, 95-131: the invocation throws; rethrow into the outer catch
\* on a skip condition or when the attempts are used up, else wait
CrawlFails(errorMessage) ==
  /\ crawl.pc = "attempt"
  /\ LET attempts == crawl.attempts + 1
         failed == [crawl EXCEPT !.attempts = attempts,
                                 !.errors = Append(@, errorMessage)]
     IN crawl' = IF shouldSkip(errorMessage) \/ attempts >= RETRY_ATTEMPTS
                 THEN [failed EXCEPT !.pc = "returned",
                                     !.result = FailedCrawl(errorMessage)]
                 ELSE [failed EXCEPT !.pc = "backoff"]
  /\ OnlyCrawl

\* lines 75-83, 53-58: after RETRY_DELAY assign the fallback settings and,
\* while attempts < RETRY_ATTEMPTS, invoke the crawl again; with the loop
\* left by its condition, processCrawlResults reads crawlResults unassigned
RetryAfterDelay ==
  /\ crawl.pc = "backoff"
  /\ LET settings == assignFallback(crawl.crawlSettings)
     IN crawl' = IF crawl.attempts < RETRY_ATTEMPTS
                 THEN [crawl EXCEPT !.pc = "attempt",
                                    !.crawlSettings = settings,
                                    !.calls = Append(@, settings)]
                 ELSE [crawl EXCEPT
                         !.pc = "returned",
                         !.crawlSettings = settings,
                         !.processed = TRUE,
                         !.result = FailedCrawl(<<"TypeError">>)]
  /\ OnlyCrawl

InitCrawl ==
  /\ audits = <<>>
  /\ issues = {}
  /\ runs = <<>>
  /\ cancelReq = [pc |-> "idle", id |-> 0]
  /\ cleanupReq = [pc |-> "idle", stuck |-> {}]
  /\ response = NoResponse
  /\ faults = 0
  /\ limits = [audits |-> 0, faults |-> 0]
  /\ cancelled = {}
  /\ cleaned = {}
  /\ batch = NoBatch
  /\ ssh = NoCall
  /\ crawl = NoCrawl
  /\ calc = NoCalc
  /\ client = NoClient

NextCrawl ==
  \/ \E config \in CrawlConfigs : runCrawlChecks(config)
  \/ \E results \in CrawlResults : CrawlSucceeds(results)
  \/ \E errorMessage \in CrawlErrors : CrawlFails(errorMessage)
  \/ RetryAfterDelay

SpecCrawl == InitCrawl /\ [][NextCrawl]_vars

\* the awaited crawl invocation settles
AttemptSettles ==
  \/ \E results \in CrawlResults : CrawlSucceeds(results)
  \/ \E errorMessage \in CrawlErrors : CrawlFails(errorMessage)

\* every invocation settles and the timer of the delay fires
SpecCrawlFair ==
  /\ SpecCrawl
  /\ WF_vars(AttemptSettles)
  /\ WF_vars(RetryAfterDelay)

----------------------------------------------------------------------------
(* The scoring functions, applied to issue lists and scores drawn by Init. *)

MaxIssues == 10
MaxScore == 100

\* IssueLike[] up to MaxIssues long
IssueLists ==
  UNION { [1 .. n -> [severity : Severities]] : n \in 0 .. MaxIssues }

OnlyCalc ==
  /\ Quiet
  /\ UNCHANGED <<audits, issues, runs, cancelReq, cleanupReq, faults, limits,
                 cancelled, cleaned, batch, ssh, crawl, client>>

\* healthScore = calculateHealthScore(issues)
ApplyCalculateHealthScore ==
  /\ calc.op = "issues"
  /\ calc' = [calc EXCEPT !.op = "calculateHealthScore",
                          !.score = calculateHealthScore(calc.issues)]
  /\ OnlyCalc

\* getHealthStatus(score)
ApplyGetHealthStatus ==
  /\ calc.op \in {"score", "calculateHealthScore"}
  /\ calc' = [calc EXCEPT !.op = "getHealthStatus",
                          !.status = getHealthStatus(calc.score)]
  /\ OnlyCalc

InitScoring ==
  /\ audits = <<>>
  /\ issues = {}
  /\ runs = <<>>
  /\ cancelReq = [pc |-> "idle", id |-> 0]
  /\ cleanupReq = [pc |-> "idle", stuck |-> {}]
  /\ response = NoResponse
  /\ faults = 0
  /\ limits = [audits |-> 0, faults |-> 0]
  /\ cancelled = {}
  /\ cleaned = {}
  /\ batch = NoBatch
  /\ ssh = NoCall
  /\ crawl = NoCrawl
  /\ client = NoClient
  /\ \/ \E list \in IssueLists :
          calc = [op |-> "issues", issues |-> list, score |-> 0,
                  status |-> "none"]
     \/ \E score \in 0 .. MaxScore :
          calc = [op |-> "score", issues |-> <<>>, score |-> score,
                  status |-> "none"]

NextScoring ==
  \/ ApplyCalculateHealthScore
  \/ ApplyGetHealthStatus

SpecScoring == InitScoring /\ [][NextScoring]_vars

----------------------------------------------------------------------------
(* getAnalytics(zoneId, hours): the Cloudflare telemetry fetch, applied to *)
(* the replies drawn by Init.  A reply is what the GraphQL request came    *)
(* to: "data" with the daily groups of the zone, "nozones" (no zone in the *)
(* data), "errors" (result.errors[0].message) or "throws" (getAuthHeader,  *)
(* fetch or response.json() threw `message`).                              *)

MaxBuckets == 2

\* sum.requests and sum.cachedRequests of one daily group
Buckets ==
  { b \in [requests : {0, 40, 60, 100}, cachedRequests : {0, 30, 50, 80}] :
      b.cachedRequests <= b.requests }

\* messages of the errors the request fails with
ProviderErrors ==
  { <<"Authentication", "error">>,
    <<"Invalid", "access", "token", "(code", "10000", ")">>,
    <<"authentication", "failed">>,
    <<"HTTP", "403", "Forbidden">>,
    <<"does", "not", "have", "permission">>,
    <<"Could", "not", "route", "to", "/zones/x">>,
    <<"getaddrinfo", "ENOTFOUND", "api.cloudflare.com">>,
    <<"fetch", "failed">>,
    <<"rate", "limited">>,
    <<"Cloudflare", "API", "token", "not", "configured">>,
    <<"Unexpected", "token", "<">> }

\* the four messages of the catch, split so that every key a caller
\* searches for is a run of whole words
HINTS ==
  [auth       |-> <<"API", "token", "authentication", "failed.", "Check",
                    "CLOUDFLARE_API_TOKEN.">>,
   permission |-> <<"API", "token", "lacks", "analytics", "permission", "s.",
                    "Add", "Zone:Read", "and", "Analytics:Read", "permission",
                    "s.">>,
   zone       |-> <<"Zone", "not", "found", ".", "The", "zone", "ID", "may",
                    "be", "incorrect.">>,
   network    |-> <<"Network", "error", "connecting", "to", "Cloudflare",
                    "API.", "Check", "internet", "connection.">>]

\* line 170
ZONE_NOT_FOUND == <<"Zone", "not", "found", "or", "no", "data", "available">>

\* the sum of one field taken from the last group only
SumOfLast(groups, field) ==
  IF groups = <<>> THEN 0 ELSE groups[Len(groups)][field]

\* lines 176-192: requests_total += sum.requests || 0, ...
RECURSIVE SumOf(_, _)
SumOf(groups, field) ==
  IF groups = <<>> THEN 0
  ELSE Head(groups)[field] + SumOf(Tail(groups), field)

RECURSIVE GCD(_, _)
GCD(a, b) == IF b = 0 THEN a ELSE GCD(b, a % b)

\* the number a / b (b > 0) as a fraction in lowest terms
Quotient(a, b) == [num |-> a \div GCD(a, b), den |-> b \div GCD(a, b)]

ZERO == [num |-> 0, den |-> 1]

\* line 221: requests_total > 0 ? requests_cached / requests_total : 0
CacheHitRatio(requests_cached, requests_total) ==
  IF requests_total > 0 THEN Quotient(requests_cached, requests_total)
  ELSE ZERO

\* lines 233-251: the error the catch throws for errorMessage
AnalyticsError(errorMessage) ==
  IF includes(errorMessage, <<"10000">>)
       \/ includes(errorMessage, <<"Authentication">>)
  THEN HINTS.auth
  ELSE IF includes(errorMessage, <<"403">>)
            \/ includes(errorMessage, <<"permission">>)
            \/ includes(errorMessage, <<"9109">>)
  THEN HINTS.permission
  ELSE IF includes(errorMessage, <<"7003">>)
            \/ includes(errorMessage, <<"Could", "not", "route">>)
  THEN HINTS.zone
  ELSE IF includes(errorMessage, <<"ENOTFOUND">>)
            \/ includes(errorMessage, <<"network">>)
  THEN HINTS.network
  ELSE <<"Analytics", "unavailable:">> \o errorMessage

NoAnalytics ==
  [requests_total |-> 0, requests_cached |-> 0, cache_hit_ratio |-> ZERO]

\* lines 92-253: what getAnalytics returns or throws for a reply
getAnalytics(reply) ==
  IF reply.kind = "data"
  THEN [thrown |-> <<>>,
        value |->
          [requests_total  |-> SumOf(reply.groups, "requests"),
           requests_cached |-> SumOf(reply.groups, "cachedRequests"),
           cache_hit_ratio |->
             CacheHitRatio(SumOf(reply.groups, "cachedRequests"),
                           SumOf(reply.groups, "requests"))]]
  ELSE [thrown |-> AnalyticsError(IF reply.kind = "nozones"
                                  THEN ZONE_NOT_FOUND ELSE reply.message),
        value |-> NoAnalytics]

\* the replies a request comes to
Replies ==
  [kind : {"data"},
   groups : UNION { [1 .. n -> Buckets] : n \in 0 .. MaxBuckets },
   message : {<<>>}]
  \cup [kind : {"nozones"}, groups : {<<>>}, message : {<<>>}]
  \cup [kind : {"errors", "throws"}, groups : {<<>>},
         message : ProviderErrors]

ApplyGetAnalytics ==
  /\ calc.op = "reply"
  /\ calc' = [calc EXCEPT !.op = "getAnalytics",
                          !.out = getAnalytics(calc.reply)]
  /\ OnlyCalc

InitAnalytics ==
  /\ audits = <<>>
  /\ issues = {}
  /\ runs = <<>>
  /\ cancelReq = [pc |-> "idle", id |-> 0]
  /\ cleanupReq = [pc |-> "idle", stuck |-> {}]
  /\ response = NoResponse
  /\ faults = 0
  /\ limits = [audits |-> 0, faults |-> 0]
  /\ cancelled = {}
  /\ cleaned = {}
  /\ batch = NoBatch
  /\ ssh = NoCall
  /\ crawl = NoCrawl
  /\ client = NoClient
  /\ \E reply \in Replies :
       calc = [op |-> "reply", reply |-> reply,
               out |-> [thrown |-> <<>>, value |-> NoAnalytics]]

NextAnalytics == ApplyGetAnalytics

SpecAnalytics == InitAnalytics /\ [][NextAnalytics]_vars

----------------------------------------------------------------------------
(* runPerformanceChecks(config): the telemetry fetch (when a zone is       *)
(* configured) and the HEAD probe of the host, applied to the inputs drawn *)
(* by Init.                                                                *)

\* p < q for fractions
Less(p, q) == p.num * q.den < q.num * p.den

\* the HEAD request: rejected, or answered after responseTime ms
Probes ==
  [ok : {FALSE}, responseTime : {0}]
    \cup [ok : {TRUE}, responseTime : {200, 2000, 4000}]

\* issues of the rules on fields the reply does not carry here (5xx, 4xx,
\* threats, SSL rate, bandwidth, bots, countries, TLS versions)
FurtherIssues ==
  { <<>>,
    <<[severity |-> "warning", title |-> "SSL encryption rate"]>>,
    <<[severity |-> "critical", title |-> "server errors (5xx)"],
      [severity |-> "info", title |-> "threats blocked"]>> }

PerfIssue(severity, title) == [severity |-> severity, title |-> title]

\* lines 201-225: the cache hit ratio rule
CacheIssues(ratio) ==
  IF Less(ratio, THRESHOLDS.cache_hit_ratio.critical)
  THEN <<PerfIssue("warning", "Cloudflare CDN cache hit ratio")>>
  ELSE IF Less(ratio, THRESHOLDS.cache_hit_ratio.warning)
  THEN <<PerfIssue("info", "Cloudflare CDN cache hit ratio")>>
  ELSE <<>>

\* lines 421-453: the issue for a failed fetch
FetchFailedIssue(errorMessage) ==
  PerfIssue(IF includes(errorMessage, <<"authentication">>)
                 \/ includes(errorMessage, <<"permission">>)
                 \/ includes(errorMessage, <<"Zone", "not", "found">>)
            THEN "warning" ELSE "info",
            "Could not fetch Cloudflare analytics")

\* lines 180-466
CloudflareIssues(config) ==
  IF config.cloudflareZoneId
  THEN LET fetched == getAnalytics(config.reply)
       IN IF fetched.thrown = <<>>
          THEN CacheIssues(fetched.value.cache_hit_ratio) \o config.further
          ELSE <<FetchFailedIssue(fetched.thrown)>>
  ELSE <<PerfIssue("info", "Cloudflare not configured")>>

\* lines 639-684
ProbeIssues(probe) ==
  IF ~probe.ok THEN <<PerfIssue("critical", "Site unreachable")>>
  ELSE IF probe.responseTime > 3000
  THEN <<PerfIssue("critical", "Slow response time")>>
  ELSE IF probe.responseTime > 1500
  THEN <<PerfIssue("warning", "Response time")>>
  ELSE <<>>

\* runPerformanceChecks with no catch around the fetch
runPerformanceChecksUncaught(config) ==
  IF config.cloudflareZoneId /\ getAnalytics(config.reply).thrown # <<>>
  THEN [thrown |-> TRUE, issues |-> <<>>]
  ELSE [thrown |-> FALSE,
        issues |-> CloudflareIssues(config) \o ProbeIssues(config.probe)]

\* lines 176-687: both parts catch what they throw
runPerformanceChecks(config) ==
  [thrown |-> FALSE,
   issues |-> CloudflareIssues(config) \o ProbeIssues(config.probe)]

\* cloudflareZoneId is written TRUE when the site has a zone id
PerformanceConfigs ==
  [cloudflareZoneId : {TRUE}, reply : Replies, further : FurtherIssues,
   probe : Probes]
  \cup [cloudflareZoneId : {FALSE},
         reply : [kind : {"nozones"}, groups : {<<>>}, message : {<<>>}],
         further : {<<>>}, probe : Probes]

ApplyRunPerformanceChecks ==
  /\ calc.op = "config"
  /\ calc' = [calc EXCEPT !.op = "runPerformanceChecks",
                          !.out = runPerformanceChecks(calc.config)]
  /\ OnlyCalc

\* lines 120-147 of runAudit: the score over the issues of the module
ApplyScoreOfModule ==
  /\ calc.op = "runPerformanceChecks"
  /\ ~calc.out.thrown
  /\ calc' = [calc EXCEPT !.op = "calculateHealthScore",
                          !.score = calculateHealthScore(calc.out.issues)]
  /\ OnlyCalc

InitPerformance ==
  /\ audits = <<>>
  /\ issues = {}
  /\ runs = <<>>
  /\ cancelReq = [pc |-> "idle", id |-> 0]
  /\ cleanupReq = [pc |-> "idle", stuck |-> {}]
  /\ response = NoResponse
  /\ faults = 0
  /\ limits = [audits |-> 0, faults |-> 0]
  /\ cancelled = {}
  /\ cleaned = {}
  /\ batch = NoBatch
  /\ ssh = NoCall
  /\ crawl = NoCrawl
  /\ client = NoClient
  /\ \E config \in PerformanceConfigs :
       calc = [op |-> "config", config |-> config,
               out |-> [thrown |-> FALSE, issues |-> <<>>],
               score |-> NULL_SCORE]

NextPerformance ==
  \/ ApplyRunPerformanceChecks
  \/ ApplyScoreOfModule

SpecPerformance == InitPerformance /\ [][NextPerformance]_vars

----------------------------------------------------------------------------

\* the bulk sweep; store calls may resolve with an error
InitBatch ==
  /\ audits = <<>>
  /\ issues = {}
  /\ runs = <<>>
  /\ cancelReq = [pc |-> "idle", id |-> 0]
  /\ cleanupReq = [pc |-> "idle", stuck |-> {}]
  /\ response = NoResponse
  /\ faults = 0
  /\ limits = [audits |-> 0, faults |-> MaxBatchFaults]
  /\ cancelled = {}
  /\ cleaned = {}
  /\ batch = NoBatch
  /\ ssh = NoCall
  /\ crawl = NoCrawl
  /\ calc = NoCalc
  /\ client = NoClient

NextBatch ==
  \/ runAllAudits
  \/ BatchLaunch
  \/ BatchCollect
  \/ BatchReturn
  \/ \E r \in RunIds : SiteLookup(r)
  \/ \E r \in RunIds : CreateAudit(r)
  \/ \E r \in RunIds : updateProgress(r)
  \/ \E r \in RunIds : RunCheck(r)
  \/ \E r \in RunIds : WriteCompleted(r)
  \/ \E r \in RunIds : CloseIssues(r)
  \/ \E r \in RunIds : InsertIssues(r)
  \/ \E r \in RunIds : CatchWrite(r)

SpecBatch == InitBatch /\ [][NextBatch]_vars

\* a request that awaits its run, next to the start requests and their
\* detached runs; the store applies every call
InitAwaited ==
  /\ audits = <<>>
  /\ issues = {}
  /\ runs = <<>>
  /\ cancelReq = [pc |-> "idle", id |-> 0]
  /\ cleanupReq = [pc |-> "idle", stuck |-> {}]
  /\ response = NoResponse
  /\ faults = 0
  /\ limits = [audits |-> MaxStartedWithAwaited, faults |-> 0]
  /\ cancelled = {}
  /\ cleaned = {}
  /\ batch = NoBatch
  /\ ssh = NoCall
  /\ crawl = NoCrawl
  /\ calc = NoCalc
  /\ client = NoClient

NextAwaited ==
  \/ NextRuns
  \/ \E r \in RunIds : CreateAudit(r)
  \/ \E s \in Sites \cup {UnknownSite} : RunOne(s)
  \/ RunOneRespond

SpecAwaited == InitAwaited /\ [][NextAwaited]_vars

----------------------------------------------------------------------------
(* AuditButton (components/audit-button.tsx): the client that starts an    *)
(* audit, polls GET /api/audits/:id while `loading` and `auditId` are set  *)
(* and cancels with DELETE /api/audits/:id.  `polls` holds the statuses    *)
(* read by the GET requests whose answer pollProgress has not handled yet. *)

\* GET requests of one AuditButton that are in flight together
MaxPolls == 1

\* a step of the client: no answer of the server, nothing of the server moves
OnlyClient ==
  /\ Quiet
  /\ UNCHANGED <<audits, issues, runs, cancelReq, cleanupReq, faults, limits,
                 cancelled, cleaned, batch, ssh, crawl, calc>>

\* lines 157-176 of runAudit: setLoading(true), then the answer of the POST
\* carries the id of the Audit row and setAuditId keeps it
setAuditId(a) ==
  /\ ~client.loading
  /\ client.stopped = "never"
  /\ a \in AuditIds
  /\ client' = [client EXCEPT !.loading = TRUE, !.auditId = a]
  /\ OnlyClient

\* lines 149-154 and 80-83: the interval fires while auditId and loading are
\* set; GET /api/audits/:id selects the row (route.ts:4-22)
fetchAudit ==
  /\ client.loading
  /\ client.auditId # 0
  /\ Cardinality(client.polls) < MaxPolls
  /\ client' = [client EXCEPT
                  !.polls = @ \cup {audits[client.auditId].status}]
  /\ OnlyClient

\* lines 84-116: the answer of a GET arrives; completed and failed clear
\* loading and auditId, every other status leaves them
pollProgress(status) ==
  /\ status \in client.polls
  /\ client' = IF status \in {"completed", "failed"}
               THEN [client EXCEPT !.polls = @ \ {status},
                                   !.loading = FALSE,
                                   !.auditId = 0,
                                   !.stopped = "observed"]
               ELSE [client EXCEPT !.polls = @ \ {status}]
  /\ OnlyClient

\* lines 122-147: the DELETE of this client was answered 200
cancelAudit ==
  /\ client.auditId # 0
  /\ client.auditId \in cancelled
  /\ client' = [client EXCEPT !.loading = FALSE,
                              !.auditId = 0,
                              !.stopped = "cancel"]
  /\ OnlyClient

\* the steps of one AuditButton, with the requests, the runs and the clock
\* of the server
NextClient ==
  \/ Next
  \/ \E a \in 1 .. limits.audits : setAuditId(a)
  \/ fetchAudit
  \/ \E status \in {"pending", "running", "completed", "failed"} :
       pollProgress(status)
  \/ cancelAudit

\* the interval keeps firing, every answer arrives, and every run goes on
SpecClient ==
  /\ Init
  /\ [][NextClient]_vars
  /\ WF_vars(fetchAudit)
  /\ WF_vars(\E status \in {"pending", "running", "completed", "failed"} :
               pollProgress(status))
  /\ WF_vars(NextRuns)

----------------
(* Claims *)

Terminal(status) == status \in {"completed", "failed"}

\* the status changes the Audit state machine allows
LegalStatusStep(from, to) ==
  \/ to = from
  \/ from = "pending" /\ to \in {"running", "failed"}
  \/ from = "running" /\ to \in {"completed", "failed"}

\* C1: an Audit's status changes only along pending -> running,
\* running -> completed, running -> failed and pending/running -> failed;
\* completed and failed are terminal, so an Audit that has reached completed
\* or failed never changes status again.
C1_StatusOnlyAlongStateMachine ==
  [][\A a \in AuditIds :
       LegalStatusStep(audits[a].status, audits'[a].status)]_vars

\* C2: a cancel of an Audit found pending or running is not rejected, and
\* the cancel that answers ok has moved the Audit to failed, with
\* completed_at set and the message that it was manually cancelled.
C2_CancelForcesFailed ==
  /\ (response.op = "cancel" /\ response.code = 200) =>
        /\ audits[response.n].status = "failed"
        /\ audits[response.n].completed_at # NULL
        /\ audits[response.n].error_message = CANCELLED_MESSAGE
  /\ (response.op = "cancel" /\ response.code = 400) =>
        ~CanCancel(audits[response.n].status)

\* C2 witness: a cancel answered ok while the run of the Audit is still
\* between two check modules.
C2_Witness ==
  /\ response.op = "cancel" /\ response.code = 200
  /\ audits[response.n].status = "failed"
  /\ \E r \in RunIds : runs[r].audit = response.n /\ runs[r].pc = "check"

\* C3: a cancel of an Audit that is completed or failed is rejected with an
\* error and leaves the Audit record unchanged; in particular no cancel
\* issued after a successful cancel of the same Audit passes the status check.
C3_CancelOfTerminalRejected ==
  [][\A id \in AuditIds :
       /\ (cancelReq.pc = "idle" /\ cancelReq'.pc = "update"
             /\ cancelReq'.id = id) =>
            (CanCancel(audits[id].status) /\ id \notin cancelled)
       /\ (response'.op = "cancel" /\ response'.code = 400
             /\ response'.n = id) =>
            (audits' = audits)]_vars

\* C4: when a run completes successfully on host H, every Issue of H that
\* was open before has status fixed and the open Issues of H are exactly the
\* findings of the run, each open and linked to its Audit.
C4_CompletedRunReplacesOpenIssues ==
  [][\A r \in RunIds :
       (runs[r].pc # "resolved" /\ runs'[r].pc = "resolved") =>
          (OpenIssues(runs[r].site))' = issuesToInsert(runs[r])]_vars

\* C5: for every host, all open Issues were inserted by one single Audit,
\* whatever the interleaving of the runs on that host.
C5_OneOpenIssueSetPerHost ==
  \A s \in Sites :
    \A i \in OpenIssues(s), j \in OpenIssues(s) : i.audit_id = j.audit_id

\* C6: closing the previously open Issues of the host and inserting the new
\* ones take effect together: in no state has a run closed the open Issues
\* of its host while its own Issues are not yet inserted.
C6_ReplacementIsOneUnit ==
  \A r \in RunIds : ~(runs[r].pc = "insert" /\ runs[r].touched)

ModuleErrors == {ModuleError[CheckModules[k]] : k \in 1 .. Len(CheckModules)}

Settled(pc) == pc \in {"resolved", "rejected"}

\* the run failed at a check module, at the completed write, at the issue
\* close or at the issue insert
FailedAtStep(run) ==
  \/ run.error \in ModuleErrors
  \/ run.ignored \cap {"completed", "close", "insert"} # {}

\* C7: when a run fails at a check module, the completed write, the issue
\* close or the issue insert, the Audit is persisted as failed and the run
\* has closed no Issue of the host and added none.
C7_FailedRunLeavesIssues ==
  \A r \in RunIds :
    (Settled(runs[r].pc) /\ FailedAtStep(runs[r])
       /\ "failed" \notin runs[r].ignored) =>
      (audits[runs[r].audit].status = "failed" /\ ~runs[r].touched)

\* C8: once a check module has thrown, the run invokes no later module; the
\* catch handler's write leaves the Audit failed, with completed_at set and
\* error_message equal to the stringified error; and an Audit is failed only
\* by a cancel, by the cleanup or by the error a module of its run threw.
C8_ModuleErrorFailsAudit ==
  /\ [](\A r \in RunIds :
          runs[r].error \in ModuleErrors =>
            /\ runs[r].pc \in {"catch", "rejected", "dead"}
            /\ runs[r].error = ModuleError[CheckModules[runs[r].step]])
  /\ [][\A r \in RunIds :
          (runs[r].pc = "catch" /\ runs'[r].pc = "rejected"
             /\ "failed" \notin runs'[r].ignored) =>
            /\ audits'[runs[r].audit].status = "failed"
            /\ audits'[runs[r].audit].completed_at # NULL
            /\ audits'[runs[r].audit].error_message = runs[r].error]_vars
  /\ [](\A r \in RunIds :
          audits[runs[r].audit].status = "failed" =>
            \/ audits[runs[r].audit].error_message
                 \in {CANCELLED_MESSAGE, TIMED_OUT_MESSAGE}
            \/ /\ runs[r].error \in ModuleErrors
               /\ audits[runs[r].audit].error_message = runs[r].error)

\* C8 witness: a run rejected by the error of the third module, its Audit
\* failed with that error as message.
C8_Witness ==
  \E r \in RunIds :
    /\ runs[r].pc = "rejected"
    /\ runs[r].error = ModuleError["performance"]
    /\ audits[runs[r].audit].status = "failed"
    /\ audits[runs[r].audit].error_message = runs[r].error

\* C9: once the detached run has settled, with or without an error, the
\* Audit it was given is completed or failed.
C9_SettledRunLeavesTerminalAudit ==
  \A r \in RunIds :
    Settled(runs[r].pc) => Terminal(audits[runs[r].audit].status)

\* C10: with the watchdog invoked again and again, no Audit stays pending or
\* running forever: every Audit that is pending or running is later
\* completed or failed, also when its run died without a terminal write.
C10_NoAuditStaysOpenForever ==
  \A a \in 1 .. MaxFaultyAudits :
    (a \in AuditIds /\ ~Terminal(audits[a].status))
      ~> (a \in AuditIds /\ Terminal(audits[a].status))

\* C10 witness: the run died before marking its Audit running and the
\* cleanup failed the pending Audit.
C10_Witness ==
  \E r \in RunIds :
    /\ runs[r].pc = "dead"
    /\ runs[r].ignored = {}
    /\ audits[runs[r].audit].status = "failed"
    /\ audits[runs[r].audit].error_message = TIMED_OUT_MESSAGE
    /\ audits[runs[r].audit].summary = <<"Starting audit...">>

\* the Audits the watchdog is to fail: pending or running, started more than
\* the staleness threshold ago
StaleOpen(a) == ~Terminal(audits[a].status) /\ IsStale(audits[a])

\* C11: the cleanup that answers ok has set to failed exactly the Audits that
\* are pending or running and older than the staleness threshold, reports
\* their number as cleaned and leaves every other Audit as it was.
C11_CleanupFailsExactlyStale ==
  [][(response'.op = "cleanup" /\ response'.code = 200) =>
       /\ \A a \in AuditIds :
            audits'[a] = IF StaleOpen(a)
                         THEN FailedRow(audits[a], TIMED_OUT_MESSAGE)
                         ELSE audits[a]
       /\ response'.n = Cardinality({a \in AuditIds : StaleOpen(a)})]_vars

\* C12: a stale Audit is force-failed and counted by the cleanup once: a
\* cleanup that answers ok neither counts nor modifies an Audit that an
\* earlier cleanup counted as cleaned.
C12_CleanedOnlyOnce ==
  [][(response'.op = "cleanup" /\ response'.code = 200) =>
       \A a \in cleaned :
         a \notin cleanupReq.stuck /\ audits'[a] = audits[a]]_vars

\* the order of the check modules the claim states
FixedModuleOrder ==
  << "plugins", "database", "performance", "security", "seo", "crawl" >>

\* the check modules a run has invoked so far, in the order of invocation
Invoked(run) ==
  SubSeq(CheckModules, 1,
         IF run.error \in ModuleErrors THEN run.step ELSE run.step - 1)

\* the run is past its last check module
PastModules(pc) == pc \in {"completed", "close", "insert", "resolved"}

\* C13: the modules a run has invoked are, at every moment, the first ones
\* of the order plugins, database, performance, security, SEO, crawl, each
\* once, and a run that is past its check modules has invoked all six.
C13_ModulesInFixedOrder ==
  \A r \in RunIds :
    /\ Len(Invoked(runs[r])) <= Len(FixedModuleOrder)
    /\ Invoked(runs[r]) = SubSeq(FixedModuleOrder, 1, Len(Invoked(runs[r])))
    /\ PastModules(runs[r].pc) => Invoked(runs[r]) = FixedModuleOrder

\* the Audit row carries a progress entry
HasProgress(row) == row.raw_data.progress # <<>>

PercentOf(row) == row.raw_data.progress[1].percent

\* C14: the progress percent stored on an Audit is within 0..100, is 0 when
\* the row is created, and no write replaces it by a smaller one.
C14_ProgressNeverDecreases ==
  /\ [](\A a \in AuditIds :
          HasProgress(audits[a]) => PercentOf(audits[a]) \in 0 .. 100)
  /\ [][\A a \in 1 .. Len(audits') :
          IF a \in AuditIds
          THEN (HasProgress(audits[a]) /\ HasProgress(audits'[a])) =>
                  PercentOf(audits'[a]) >= PercentOf(audits[a])
          ELSE HasProgress(audits'[a]) /\ PercentOf(audits'[a]) = 0]_vars

\* C14 witness: the Finalizing write stored 100 on an Audit of a run one of
\* whose earlier progress writes the store had refused.
C14_Witness ==
  \E r \in RunIds :
    /\ runs[r].audit \in AuditIds
    /\ "progress" \in runs[r].ignored
    /\ HasProgress(audits[runs[r].audit])
    /\ PercentOf(audits[runs[r].audit]) = 100

C16_UnknownHostCreatesNoAudit ==
  /\ [](/\ \A r \in RunIds :
            runs[r].site \notin Sites =>
              (runs[r].audit = 0 /\ runs[r].pc \in {"lookup", "rejected"})
        /\ \A a \in AuditIds : audits[a].site_id \in Sites)
  /\ [][/\ (response'.op = "start" /\ response'.code = 404) =>
             audits' = audits
        /\ \A r \in RunIds :
             (runs[r].site \notin Sites /\ runs'[r].pc # runs[r].pc) =>
               /\ runs'[r].pc = "rejected"
               /\ runs'[r].error = SITE_NOT_FOUND
               /\ audits' = audits]_vars

\* C16 witness: the awaited run for the unknown host was answered 500 with
\* 'Site not found', the only Audit row being the one of a start request.
C16_Witness ==
  /\ response.op = "run" /\ response.code = 500 /\ response.n = 0
  /\ runs[batch.run].site = UnknownSite
  /\ runs[batch.run].error = SITE_NOT_FOUND
  /\ Len(audits) = 1

\* C17: the error a check module throws does not leave the run: runAudit
\* does not reject with it towards its caller.
C17_ModuleErrorStaysInRun ==
  \A r \in RunIds :
    runs[r].error \in ModuleErrors => runs[r].pc # "rejected"

\* C18: the sweep runs one host at a time, and when it returns it has run
\* the orchestrator once for every host of the sites table, in order, every
\* run has ended, succeeded + failed is the number of hosts and failed is
\* the number of runs that threw.
C18_SweepRunsEveryHostOnce ==
  /\ \A k \in 1 .. Len(batch.ran) - 1 : Settled(runs[batch.ran[k]].pc)
  /\ response.op = "startAll" =>
       /\ [k \in 1 .. Len(batch.ran) |-> runs[batch.ran[k]].site] = SiteList
       /\ \A k \in 1 .. Len(batch.ran) : Settled(runs[batch.ran[k]].pc)
       /\ batch.succeeded + batch.failed = Len(SiteList)
       /\ batch.failed = Cardinality({k \in 1 .. Len(batch.ran) :
                                        runs[batch.ran[k]].pc = "rejected"})

\* C19: whatever the remote side does, once more than timeout + 5 seconds
\* have passed since the call, the promise the call returned has settled.
C19_SettlesWithinHardTimeout ==
  (ssh.pc = "called" /\ ssh.now > ssh.T + HARD_TIMEOUT_EXTRA_MS) =>
    ssh.race # "pending"

\* C19 witness: the remote side accepted the command and never closed the
\* stream nor reported anything; the call was rejected by the command
\* timeout and more than timeout + 5 seconds have passed.
C19_Witness ==
  /\ ssh.pc = "called"
  /\ ssh.stream = "open"
  /\ ssh.seen = {}
  /\ ssh.race = TIMED_OUT.command
  /\ ssh.now > ssh.T + HARD_TIMEOUT_EXTRA_MS

\* C20: when the call has settled, and when the hard timer has fired, the
\* connection is no longer open, and conn.end() has run at most once,
\* however many events fire for the call.
C20_ConnectionReleasedOnce ==
  /\ ssh.ends <= 1
  /\ ssh.race # "pending" => ssh.conn \in {"new", "ended", "closed"}
  /\ ssh.promise # "pending" => ssh.conn \in {"new", "ended", "closed"}
  /\ ssh.hardTimer = "fired" => ssh.conn \in {"new", "ended", "closed"}

\* C20 witness: the command ended with exit code 0, then the client
\* reported an error and its close, and both timers have had their time:
\* the connection was released once.
C20_Witness ==
  /\ ssh.race = OUTPUT
  /\ ssh.seen = {"error", "close"}
  /\ ssh.hardTimer = "fired"
  /\ ssh.conn = "closed"
  /\ ssh.ends = 1

\* the messages of CrawlErrors that match the skip-list: authentication
\* required, site unreachable, timeout exceeded, license invalid
SkipListed ==
  { <<"Crawl", "failed:", "authentication", "required">>,
    <<"Site", "unreachable">>,
    <<"TIMEOUT", "EXCEEDED", "after", "300s">>,
    <<"License", "invalid">> }

\* the call has returned and every crawl invocation it made has failed
CrawlFailed == crawl.pc = "returned" /\ Len(crawl.errors) = Len(crawl.calls)

\* the retries the claim states: RETRY_ATTEMPTS after the initial attempt
AttemptsWithRetries == 1 + RETRY_ATTEMPTS

\* C21: when every crawl attempt has failed with a retryable error, the
\* controller has made 1 + RETRY_ATTEMPTS = 3 attempts and the error it
\* surfaces is that of the last attempt.
C21_ThreeAttemptsLastErrorSurfaced ==
  (CrawlFailed /\ \A k \in 1 .. Len(crawl.errors) :
                    crawl.errors[k] \notin SkipListed) =>
    /\ Len(crawl.calls) = AttemptsWithRetries
    /\ crawl.result.description = crawl.errors[Len(crawl.errors)]

\* C22: a failure that matches the skip-list is the last attempt of its
\* call, so a skip-list failure on the first attempt gives one attempt; a
\* failure that does not match ends the call only when the attempts of the
\* loop are used up, and is followed by a retry otherwise.
C22_SkipListIsTerminal ==
  /\ crawl.pc # "idle" =>
       /\ \A k \in 1 .. Len(crawl.errors) :
            crawl.errors[k] \in SkipListed =>
              (k = Len(crawl.calls) /\ crawl.pc = "returned")
       /\ (Len(crawl.errors) >= 1 /\ crawl.errors[1] \in SkipListed) =>
            Len(crawl.calls) = 1
  /\ (CrawlFailed /\ crawl.errors[Len(crawl.errors)] \notin SkipListed) =>
       Len(crawl.calls) >= RETRY_ATTEMPTS

\* C22 witness: the first attempt failed with the upper-case timeout
\* message, which ended the call after one attempt.
C22_Witness ==
  /\ CrawlFailed
  /\ crawl.errors = << <<"TIMEOUT", "EXCEEDED", "after", "300s">> >>
  /\ Len(crawl.calls) = 1

\* C23: the first attempt runs with the settings chosen for the host, every
\* later attempt with exactly maxPages 25, timeout 120000 ms and page speed
\* off, nothing of the earlier settings being kept.
C23_RetryUsesFallbackProfile ==
  crawl.pc # "idle" =>
    /\ crawl.calls[1] = InitialSettings(crawl.config)
    /\ \A k \in 2 .. Len(crawl.calls) :
         crawl.calls[k] = [maxPages |-> 25, timeout |-> 120000,
                           includePageSpeed |-> FALSE]

\* C23 witness: a retry after a first attempt whose page limit and timeout
\* were both below the fallback values.
C23_Witness ==
  /\ crawl.pc = "attempt"
  /\ Len(crawl.calls) = 2
  /\ crawl.calls[1].maxPages < 25
  /\ crawl.calls[1].timeout < 120000
  /\ crawl.calls[2].maxPages = 25

\* C24: the crawl module never raises, and when the crawl has failed it
\* returns total_pages = 0 and exactly one issue, of severity warning.
C24_FailedCrawlDegrades ==
  /\ crawl.pc \in {"idle", "attempt", "backoff", "returned"}
  /\ CrawlFailed =>
       /\ crawl.result.total_pages = 0
       /\ Len(crawl.result.issues) = 1
       /\ crawl.result.issues[1].severity = "warning"

\* C24 witness: both attempts failed with a retryable error and the module
\* returned the degraded result.
C24_Witness ==
  /\ CrawlFailed
  /\ Len(crawl.calls) = 2
  /\ crawl.errors[2] = <<"Connection", "reset">>
  /\ crawl.result.total_pages = 0
  /\ Len(crawl.result.issues) = 1

\* the score has been computed from calc.issues
Scored ==
  calc.op = "calculateHealthScore"
    \/ (calc.op = "getHealthStatus" /\ calc.issues # <<>>)

AllOf(list, sev) == \A i \in 1 .. Len(list) : list[i].severity = sev

\* C25: for every issue list the health score is
\* max(0, min(100, 100 - 15*critical - 5*warning - 1*info)); the empty list
\* scores 100, one critical 85, one warning 95, one info 99, ten criticals
\* 0, and the score is never below 0 nor above 100.
C25_ScoreIsClampedDeduction ==
  Scored =>
    LET list == calc.issues
        raw == 100 - 15 * CountSeverity(list, "critical")
                   - 5 * CountSeverity(list, "warning")
                   - 1 * CountSeverity(list, "info")
    IN /\ calc.score = (IF raw < 0 THEN 0 ELSE IF raw > 100 THEN 100 ELSE raw)
       /\ calc.score >= 0 /\ calc.score <= 100
       /\ list = <<>> => calc.score = 100
       /\ list = <<[severity |-> "critical"]>> => calc.score = 85
       /\ list = <<[severity |-> "warning"]>> => calc.score = 95
       /\ list = <<[severity |-> "info"]>> => calc.score = 99
       /\ (Len(list) = 10 /\ AllOf(list, "critical")) => calc.score = 0

\* C25 witness: ten criticals have been scored 0.
C25_Witness ==
  /\ calc.op = "calculateHealthScore"
  /\ Len(calc.issues) = 10
  /\ AllOf(calc.issues, "critical")
  /\ calc.score = 0

\* C26: for every score in 0..100 the status is healthy from 90 up,
\* attention from 70 to 89 and critical below 70.
C26_StatusBands ==
  calc.op = "getHealthStatus" =>
    /\ calc.score >= 90 => calc.status = "healthy"
    /\ (calc.score >= 70 /\ calc.score < 90) => calc.status = "attention"
    /\ calc.score < 70 => calc.status = "critical"
    /\ calc.score = 90 => calc.status = "healthy"
    /\ calc.score = 89 => calc.status = "attention"
    /\ calc.score = 70 => calc.status = "attention"
    /\ calc.score = 69 => calc.status = "critical"

\* C26 witness: the boundary score 70 has been banded attention.
C26_Witness ==
  /\ calc.op = "getHealthStatus"
  /\ calc.issues = <<>>
  /\ calc.score = 70
  /\ calc.status = "attention"

\* the field summed over all groups, from the last group backwards
RECURSIVE OverAllBuckets(_, _, _)
OverAllBuckets(groups, field, n) ==
  IF n = 0 THEN 0 ELSE OverAllBuckets(groups, field, n - 1) + groups[n][field]

\* getAnalytics has returned a value for a reply with data
Fetched ==
  calc.op = "getAnalytics" /\ calc.reply.kind = "data"

\* C27: the fetch returns cache_hit_ratio = cached / total, both summed
\* over all buckets, and 0 when the total is 0; cached 80 of total 100
\* gives 0.8 (= 4/5).
C27_CacheHitRatio ==
  Fetched =>
    LET groups == calc.reply.groups
        total == OverAllBuckets(groups, "requests", Len(groups))
        cached == OverAllBuckets(groups, "cachedRequests", Len(groups))
        ratio == calc.out.value.cache_hit_ratio
    IN /\ calc.out.thrown = <<>>
       /\ ratio.den > 0
       /\ total > 0 => ratio.num * total = cached * ratio.den
       /\ total = 0 => ratio.num = 0
       /\ (cached = 80 /\ total = 100) => ratio = [num |-> 4, den |-> 5]

\* C27 witness: two buckets with 50 of 60 and 30 of 40 cached gave 0.8.
C27_Witness ==
  /\ Fetched
  /\ calc.reply.groups = <<[requests |-> 60, cachedRequests |-> 50],
                           [requests |-> 40, cachedRequests |-> 30]>>
  /\ calc.out.value.cache_hit_ratio = [num |-> 4, den |-> 5]

\* C28: every failure of the fetch reaches the caller as one of the four
\* normalized classes (authentication, permission, not found, network),
\* each with its own message, and the raw error is never passed on.
C28_FailuresAreNormalized ==
  (calc.op = "getAnalytics" /\ calc.reply.kind # "data") =>
    /\ calc.out.thrown \in
         {HINTS.auth, HINTS.permission, HINTS.zone, HINTS.network}
    /\ Cardinality({HINTS.auth, HINTS.permission, HINTS.zone, HINTS.network}) = 4
    /\ calc.reply.message # <<>> =>
         ~includes(calc.out.thrown, calc.reply.message)

HasIssue(list, severity, title) ==
  \E i \in 1 .. Len(list) :
    list[i].severity = severity /\ list[i].title = title

HasTitle(list, title) == \E i \in 1 .. Len(list) : list[i].title = title

\* C29: the performance module never raises: without a zone it returns an
\* info 'not configured' issue, a failed fetch becomes an issue, an
\* unreachable host becomes a critical issue, and the score over the issues
\* of a host without a zone is not null.
C29_PerformanceNeverRaises ==
  /\ calc.op \in {"runPerformanceChecks", "calculateHealthScore"} =>
       LET config == calc.config
           list == calc.out.issues
       IN /\ ~calc.out.thrown
          /\ ~config.cloudflareZoneId =>
               HasIssue(list, "info", "Cloudflare not configured")
          /\ (config.cloudflareZoneId /\ config.reply.kind # "data") =>
               HasTitle(list, "Could not fetch Cloudflare analytics")
          /\ ~config.probe.ok =>
               HasIssue(list, "critical", "Site unreachable")
  /\ (calc.op = "calculateHealthScore" /\ ~calc.config.cloudflareZoneId) =>
       (calc.score # NULL_SCORE /\ calc.score \in 0 .. 100)

\* C29 witness: a host without a zone whose probe was rejected got the
\* info and the critical issue and the score 84.
C29_Witness ==
  /\ calc.op = "calculateHealthScore"
  /\ ~calc.config.cloudflareZoneId
  /\ ~calc.config.probe.ok
  /\ Len(calc.out.issues) = 2
  /\ calc.score = 84

\* C30: an Audit with status failed has a non-null error_message, whichever
\* path made it fail (an error in the run, cancel, cleanupStale).
C30_FailedHasErrorMessage ==
  \A a \in DOMAIN audits :
    audits[a].status = "failed" => audits[a].error_message # NULL

\* C30 witness: an Audit failed by an error in its run carries the message
\* of that error.
C30_Witness ==
  \E a \in DOMAIN audits :
    /\ audits[a].status = "failed"
    /\ audits[a].error_message \notin
         {NULL, CANCELLED_MESSAGE, TIMED_OUT_MESSAGE}

\* C31: a pending or running Audit has health_score = null and a completed
\* Audit has a health_score between 0 and 100.
C31_ScoreNullUntilCompleted ==
  \A a \in AuditIds :
    /\ audits[a].status \in {"pending", "running"} =>
         audits[a].health_score = NULL_SCORE
    /\ audits[a].status = "completed" =>
         (audits[a].health_score # NULL_SCORE
            /\ audits[a].health_score \in 0 .. 100)

\* C31 witness: an Audit completed with a critical finding has score 85.
C31_Witness ==
  \E a \in AuditIds :
    audits[a].status = "completed" /\ audits[a].health_score = 85

\* C32: after an Audit has been cancelled, its run starts no further check
\* module, does not write completed and neither closes nor inserts an Issue
\* of the host.
C32_CancelStopsRunAtModuleBoundary ==
  [][\A r \in RunIds :
       runs[r].audit \in cancelled =>
         /\ runs'[r].pc = "check" => runs[r].pc = "check"
         /\ audits'[runs[r].audit].status = "completed" =>
              audits[runs[r].audit].status = "completed"
         /\ runs'[r].pc # runs[r].pc => issues' = issues]_vars

\* C33: if an Audit has status completed then the Issues found by its run
\* are inserted and every open Issue of its host that an earlier Audit
\* inserted is closed.
C33_CompletedAuditHasItsIssues ==
  \A r \in RunIds :
    audits[runs[r].audit].status = "completed" =>
      /\ issuesToInsert(runs[r]) \subseteq issues
      /\ \A i \in OpenIssues(runs[r].site) : i.audit_id >= runs[r].audit

\* the findings of a set of Issue rows
FindingsOf(rows) ==
  {[idx |-> i.idx, category |-> i.category, severity |-> i.severity] :
     i \in rows}

\* the issue list gathered by a run, as findings
FoundBy(run) ==
  {[idx |-> k, category |-> run.allIssues[k].category,
    severity |-> run.allIssues[k].severity] : k \in 1 .. Len(run.allIssues)}

\* C34: for every completed Audit, health_score is the score of the full
\* issue list of its run and the critical and warning counts of the summary
\* are those of the list; and the Issues a run inserts are that same list,
\* open and linked to the Audit and its host.
C34_ScoreOverInsertedIssues ==
  /\ [](\A r \in RunIds :
          audits[runs[r].audit].status = "completed" =>
            LET row == audits[runs[r].audit]
                list == runs[r].allIssues
            IN /\ row.health_score = Max(0, Min(100,
                    100 - 15 * CountSeverity(list, "critical")
                        - 5 * CountSeverity(list, "warning")
                        - CountSeverity(list, "info")))
               /\ row.summary[3] = CountSeverity(list, "critical")
               /\ row.summary[4] = CountSeverity(list, "warning"))
  /\ [][\A r \in RunIds :
          (runs[r].pc = "insert" /\ runs'[r].pc = "resolved"
             /\ issues' # issues) =>
            /\ FindingsOf(issues' \ issues) = FoundBy(runs[r])
            /\ \A i \in issues' \ issues :
                 /\ i.status = "open"
                 /\ i.audit_id = runs[r].audit
                 /\ i.site_id = runs[r].site]_vars

\* C34 witness: a completed Audit with score 85 whose run has inserted its
\* one critical finding.
C34_Witness ==
  \E r \in RunIds :
    /\ runs[r].pc = "resolved"
    /\ audits[runs[r].audit].status = "completed"
    /\ audits[runs[r].audit].health_score = 85
    /\ \E i \in issues : i.audit_id = runs[r].audit /\ i.severity = "critical"

\* C35: no step of an audit run on host H changes an Issue or an Audit that
\* belongs to another host, under any interleaving of concurrent runs.
C35_RunsOfOtherHostsUntouched ==
  [][\A r \in RunIds :
       runs'[r] # runs[r] =>
         /\ {i \in issues' : i.site_id # runs[r].site}
              = {i \in issues : i.site_id # runs[r].site}
         /\ \A a \in AuditIds :
              audits[a].site_id # runs[r].site => audits'[a] = audits[a]]_vars

\* C35 witness: runs on two hosts have both resolved with a finding, and
\* the Issue of each host is open.
C35_Witness ==
  \E r \in RunIds, q \in RunIds :
    /\ runs[r].site # runs[q].site
    /\ runs[r].pc = "resolved" /\ runs[q].pc = "resolved"
    /\ OpenIssues(runs[r].site) # {}
    /\ OpenIssues(runs[q].site) # {}

\* C36: the issue replacement of an audit changes only Issues whose status
\* is open: an Issue that is ignored, in_progress or fixed keeps its status
\* and its resolved_at through every step of every run.
C36_OnlyOpenIssuesReplaced ==
  [][\A i \in issues : i.status # "open" => i \in issues']_vars

\* C36 witness: two runs on the first host have resolved, the open Issue of
\* the earlier Audit is fixed, and the ignored, in_progress and fixed ones
\* are as they were.
C36_Witness ==
  /\ Len(runs) = 2
  /\ \A r \in RunIds : runs[r].pc = "resolved" /\ runs[r].site = 1
  /\ \E i \in issues :
       i.audit_id = 0 /\ i.idx = 1 /\ i.status = "fixed"
         /\ i.resolved_at = "set"
  /\ {i \in PriorIssues : i.status # "open"} \subseteq issues

\* C37: the retry loop makes a bounded number of attempts and every call
\* that entered it returns; the loop is left by a successful attempt or by
\* an error, so the crawl results are processed only when the last attempt
\* succeeded.
C37_RetryLoopTerminates ==
  /\ [](crawl.pc # "idle" =>
          /\ Len(crawl.calls) <= RETRY_ATTEMPTS
          /\ crawl.processed =>
               (crawl.pc = "returned" /\ Len(crawl.errors) < Len(crawl.calls))
          /\ (crawl.pc = "returned" /\ ~crawl.processed) =>
               (Len(crawl.errors) = Len(crawl.calls)
                  /\ crawl.result.description
                       = crawl.errors[Len(crawl.errors)]))
  /\ (crawl.pc = "attempt") ~> (crawl.pc = "returned")

\* C37 witness: the first attempt failed, the retry succeeded and its
\* results were processed.
C37_Witness ==
  /\ crawl.pc = "returned"
  /\ Len(crawl.calls) = 2
  /\ Len(crawl.errors) = 1
  /\ crawl.processed
  /\ crawl.result.total_pages = 40

\* the Audit the AuditButton polls is completed or failed
PolledIsTerminal ==
  /\ client.auditId \in AuditIds
  /\ Terminal(audits[client.auditId].status)

\* the AuditButton stops in this step: loading and auditId are cleared
StopsPolling ==
  /\ client.loading
  /\ client.auditId # 0
  /\ ~client'.loading
  /\ client'.auditId = 0

\* C38: while the client observes pending or running it keeps polling; it
\* stops (loading and audit id cleared) at the first poll that observes
\* completed or failed, or after a cancel answered 200; it never stops while
\* the Audit is non-terminal and not cancelled; and once the Audit is
\* terminal the client eventually stops.
C38_PollsUntilTerminal ==
  /\ [][\A status \in client.polls :
          client'.polls = client.polls \ {status} =>
            IF Terminal(status)
            THEN ~client'.loading /\ client'.auditId = 0
            ELSE /\ client'.loading = client.loading
                 /\ client'.auditId = client.auditId]_vars
  /\ [][StopsPolling =>
          \/ PolledIsTerminal
          \/ client.auditId \in cancelled]_vars
  /\ (client.loading /\ PolledIsTerminal) ~> ~client.loading

====
